---------------------------- MODULE Spec2Model ----------------------------
(***************************************************************************)
(* Model of the sql_saga native temporal-merge planner                     *)
(* (src/native/src/sweep.rs, src/native/src/types.rs).                     *)
(*                                                                         *)
(* Representation:                                                         *)
(*   - temporal bounds are integers (temporal_cmp is the integer order);   *)
(*   - a JSON value is a natural number, NULL standing for JSON null;      *)
(*   - a serde_json::Map is a function from column names to values;        *)
(*   - Option<T> is a sequence: <<>> for None, <<x>> for Some(x); an       *)
(*     Option<String> bound is NONE or the bound;                          *)
(*   - a grouping key "existing_entity__a__b" / "new_entity__a__b" is the  *)
(*     tuple <<K_EXISTING, a, b>> / <<K_NEW, a, b>>; "" is <<>>.               *)
(***************************************************************************)
EXTENDS Integers, Sequences, FiniteSets, TLC

VARIABLES
    ctx,            \* PlannerContext of the call
    source_rows,    \* Vec<SourceRow> handed to sweep_line_plan
    target_rows,    \* Vec<TargetRow> handed to sweep_line_plan
    pc,             \* the phase of sweep_line_plan to run next; "planned": the plan is there
    run,            \* 1: first planner call, 2: planner called again on the merged table
    matched,        \* matched_sources of the call
    groups,         \* entity_groups of the call: BTreeMap values in key order
    gi,             \* position in groups of the loop over the entity groups
    resolved,       \* what resolve_payloads returned for each group
    coalesced,      \* what coalesce_segments returned for each group
    all_plan_rows,  \* the plan
    table,          \* the target table while the plan is executed
    stmt,           \* last statement group executed
    allen_in,       \* <<x_from, x_until, y_from, y_until>> handed to AllenRelation::compute
    allen_out,      \* <<compute(x, y), compute(y, x)>>
    planner_cache,  \* PLANNER_CACHE of the session: cache key -> CachedState
    call            \* the arguments of the last call of temporal_merge_plan_native

vars == <<ctx, source_rows, target_rows, pc, run, matched, groups, gi, resolved,
          coalesced, all_plan_rows, table, stmt, allen_in, allen_out, planner_cache, call>>

-----------------------------------------------------------------------------
(* Values *)

NULL == 0
NONE == -1
K_EXISTING == 1
K_NEW == 2

Some(x) == <<x>>
None == <<>>
IsSome(o) == o /= <<>>
IsNone(o) == o = <<>>
Unwrap(o) == o[1]

EmptyMap == [c \in {} |-> NULL]

MapGet(m, k) == IF k \in DOMAIN m THEN m[k] ELSE NULL
MapHas(m, k) == k \in DOMAIN m
\* for (k, v) in over { base.insert(k, v) }
MapOverlay(base, over) ==
    [c \in (DOMAIN base) \cup (DOMAIN over) |-> IF c \in DOMAIN over THEN over[c] ELSE base[c]]

Range(s) == {s[i] : i \in DOMAIN s}
Last(s) == s[Len(s)]

RECURSIVE FlattenSeq(_)
FlattenSeq(ss) == IF ss = <<>> THEN <<>> ELSE Head(ss) \o FlattenSeq(Tail(ss))

\* The subsequence of s at the indices whose flag is TRUE, in order.
RECURSIVE FilterByFlags(_, _)
FilterByFlags(s, flags) ==
    IF s = <<>> THEN <<>>
    ELSE (IF Head(flags) THEN <<Head(s)>> ELSE <<>>) \o FilterByFlags(Tail(s), Tail(flags))

\* The subsequence of s at the indices i with Keep(i), in order.
KeepIdx(s, Keep(_)) == FilterByFlags(s, [i \in 1..Len(s) |-> Keep(i)])

\* The indices of keys in ascending stable order of the keys: idx lists the indices
\* still to be placed.
RECURSIVE StableOrder(_, _)
StableOrder(keys, idx) ==
    IF idx = {} THEN <<>>
    ELSE LET i == CHOOSE j \in idx : \A k \in idx \ {j} :
                      keys[j] < keys[k] \/ (keys[j] = keys[k] /\ j < k)
         IN  <<i>> \o StableOrder(keys, idx \ {i})

\* Stable sort of a sequence by an integer key (slice::sort_by_key).
SortByKey(s, Key(_)) ==
    LET order == StableOrder([i \in 1..Len(s) |-> Key(s[i])], 1..Len(s))
    IN  [i \in 1..Len(s) |-> s[order[i]]]

-----------------------------------------------------------------------------
(* types.rs *)

temporal_cmp(a, b) == IF a < b THEN -1 ELSE IF a > b THEN 1 ELSE 0

is_patch(mode) == mode \in {"MERGE_ENTITY_PATCH", "PATCH_FOR_PORTION_OF"}

is_last_writer_wins(mode) ==
    mode \in {"MERGE_ENTITY_REPLACE", "REPLACE_FOR_PORTION_OF",
              "INSERT_NEW_ENTITIES", "DELETE_FOR_PORTION_OF"}

\* A plausible slip in is_for_portion_of: only DELETE_FOR_PORTION_OF is matched.
is_for_portion_ofDeleteOnly(mode) == mode = "DELETE_FOR_PORTION_OF"

is_for_portion_of(mode) ==
    mode \in {"UPDATE_FOR_PORTION_OF", "PATCH_FOR_PORTION_OF",
              "REPLACE_FOR_PORTION_OF", "DELETE_FOR_PORTION_OF"}

deletes_entities(dm) ==
    dm \in {"DELETE_MISSING_ENTITIES", "DELETE_MISSING_TIMELINE_AND_ENTITIES"}

\* A plausible slip: every delete mode but NONE taken to delete the missing timeline.
deletes_timelineAny(dm) == dm /= "NONE"

deletes_timeline(dm) ==
    dm \in {"DELETE_MISSING_TIMELINE", "DELETE_MISSING_TIMELINE_AND_ENTITIES"}

is_dml(op) == op \in {"INSERT", "UPDATE", "DELETE"}

\* A plausible slip in AllenRelation::compute: Overlaps tested with <= on the upper bounds.
AllenComputeOverlapsLe(x_from, x_until, y_from, y_until) ==
    IF x_until < y_from THEN "precedes"
    ELSE IF x_until = y_from THEN "meets"
    ELSE IF x_from < y_from /\ y_from < x_until /\ x_until <= y_until THEN "overlaps"
    ELSE IF x_from = y_from /\ x_until < y_until THEN "starts"
    ELSE IF x_from > y_from /\ x_until < y_until THEN "during"
    ELSE IF x_from > y_from /\ x_until = y_until THEN "finishes"
    ELSE IF x_from = y_from /\ x_until = y_until THEN "equals"
    ELSE IF y_until < x_from THEN "preceded_by"
    ELSE IF y_until = x_from THEN "met_by"
    ELSE IF y_from < x_from /\ x_from < y_until /\ y_until < x_until THEN "overlapped_by"
    ELSE IF x_from = y_from /\ x_until > y_until THEN "started_by"
    ELSE IF x_from < y_from /\ x_until > y_until THEN "contains"
    ELSE IF x_from < y_from /\ x_until = y_until THEN "finished_by"
    ELSE "none"

\* A plausible slip in AllenRelation::compute: Starts tested with <= on the upper bounds.
AllenComputeStartsLe(x_from, x_until, y_from, y_until) ==
    IF x_until < y_from THEN "precedes"
    ELSE IF x_until = y_from THEN "meets"
    ELSE IF x_from < y_from /\ y_from < x_until /\ x_until < y_until THEN "overlaps"
    ELSE IF x_from = y_from /\ x_until <= y_until THEN "starts"
    ELSE IF x_from > y_from /\ x_until < y_until THEN "during"
    ELSE IF x_from > y_from /\ x_until = y_until THEN "finishes"
    ELSE IF x_from = y_from /\ x_until = y_until THEN "equals"
    ELSE IF y_until < x_from THEN "preceded_by"
    ELSE IF y_until = x_from THEN "met_by"
    ELSE IF y_from < x_from /\ x_from < y_until /\ y_until < x_until THEN "overlapped_by"
    ELSE IF x_from = y_from /\ x_until > y_until THEN "started_by"
    ELSE IF x_from < y_from /\ x_until > y_until THEN "contains"
    ELSE IF x_from < y_from /\ x_until = y_until THEN "finished_by"
    ELSE "none"

\* AllenRelation::compute; "none" is Option::None.
AllenCompute(x_from, x_until, y_from, y_until) ==
    LET lt(a, b) == temporal_cmp(a, b) = -1
        gt(a, b) == temporal_cmp(a, b) = 1
        eq(a, b) == temporal_cmp(a, b) = 0
    IN  IF lt(x_until, y_from) THEN "precedes"
        ELSE IF eq(x_until, y_from) THEN "meets"
        ELSE IF lt(x_from, y_from) /\ lt(y_from, x_until) /\ lt(x_until, y_until) THEN "overlaps"
        ELSE IF eq(x_from, y_from) /\ lt(x_until, y_until) THEN "starts"
        ELSE IF gt(x_from, y_from) /\ lt(x_until, y_until) THEN "during"
        ELSE IF gt(x_from, y_from) /\ eq(x_until, y_until) THEN "finishes"
        ELSE IF eq(x_from, y_from) /\ eq(x_until, y_until) THEN "equals"
        ELSE IF lt(y_until, x_from) THEN "preceded_by"
        ELSE IF eq(y_until, x_from) THEN "met_by"
        ELSE IF lt(y_from, x_from) /\ lt(x_from, y_until) /\ lt(y_until, x_until) THEN "overlapped_by"
        ELSE IF eq(x_from, y_from) /\ gt(x_until, y_until) THEN "started_by"
        ELSE IF lt(x_from, y_from) /\ gt(x_until, y_until) THEN "contains"
        ELSE IF lt(x_from, y_from) /\ eq(x_until, y_until) THEN "finished_by"
        ELSE "none"


-----------------------------------------------------------------------------
(* sweep.rs: utility functions *)

\* strip_nulls
strip_nulls(map) == [c \in {k \in DOMAIN map : map[k] /= NULL} |-> map[c]]

\* json_map_to_key: the sorted, "__"-joined "k=v" parts of the non-null entries, as the
\* set of those entries; "" is {}.
json_map_to_key(map) == {<<k, map[k]>> : k \in {c \in DOMAIN map : map[c] /= NULL}}

\* build_key_for_cols: "col=val" parts, in the order of cols, of the present non-null
\* columns; "" is <<>>.
build_key_for_cols(map, cols) ==
    LET present(i) == MapHas(map, cols[i]) /\ map[cols[i]] /= NULL
        kept == KeepIdx(cols, present)
    IN  [i \in 1..Len(kept) |-> <<kept[i], map[kept[i]]>>]

\* maps_equal_ignoring_nulls
maps_equal_ignoring_nulls(a, b) ==
    /\ \A k \in DOMAIN a : a[k] /= NULL => (MapHas(b, k) /\ b[k] = a[k])
    /\ \A k \in DOMAIN b : b[k] /= NULL => (MapHas(a, k) /\ a[k] = b[k])

\* merge_data_ephemeral on two Option<Map>
merge_data_ephemeral(data, ephemeral) ==
    IF IsSome(data) /\ IsSome(ephemeral) THEN Some(MapOverlay(Unwrap(data), Unwrap(ephemeral)))
    ELSE IF IsSome(data) THEN data
    ELSE IF IsSome(ephemeral) THEN ephemeral
    ELSE None

\* String order of the parts of a grouping key: json_value_to_str renders a value as
\* its digits and null as "_NULL_", and '_' sorts after every digit.
PartLess(x, y) == x /= y /\ (y = NULL \/ (x /= NULL /\ x < y))

\* String order (str::cmp) of two grouping keys.
RECURSIVE GroupingKeyLess(_, _)
GroupingKeyLess(a, b) ==
    IF b = <<>> THEN FALSE
    ELSE IF a = <<>> THEN TRUE
    ELSE IF Head(a) = Head(b) THEN GroupingKeyLess(Tail(a), Tail(b))
    ELSE PartLess(Head(a), Head(b))

-----------------------------------------------------------------------------
(* sweep.rs: Phase 1, entity correlation *)

build_grouping_key(sr, is_new, discovered_identity, canonical_nk, c) ==
    IF ~is_new THEN
        LET id_map == IF IsSome(discovered_identity) THEN Unwrap(discovered_identity)
                      ELSE sr.identity_keys
        IN  <<K_EXISTING>> \o [i \in 1..Len(c.identity_columns) |->
                                   MapGet(id_map, c.identity_columns[i])]
    ELSE IF c.founding_mode THEN <<K_NEW, sr.causal_id>>
    ELSE
        LET nk == IF IsSome(canonical_nk) THEN Unwrap(canonical_nk) ELSE sr.lookup_keys
        IN  IF DOMAIN nk /= {} THEN
                <<K_NEW>> \o [i \in 1..Len(c.all_lookup_cols) |->
                                  MapGet(nk, c.all_lookup_cols[i])]
            ELSE IF \A i \in 1..Len(c.identity_columns) :
                        MapGet(sr.identity_keys, c.identity_columns[i]) = NULL
            THEN <<K_NEW, sr.causal_id>>
            ELSE <<K_NEW>> \o [i \in 1..Len(c.identity_columns) |->
                                   MapGet(sr.identity_keys, c.identity_columns[i])]

\* The identity maps of the target rows a source row matches through its lookup keys:
\* every key set in turn, the matching target rows in table order.
LookupMatches(sr, targets, c) ==
    LET OfKeySet(ks) ==
            LET nk_key == build_key_for_cols(sr.lookup_keys, ks)
                hit(i) == nk_key /= <<>> /\ build_key_for_cols(targets[i].lookup_keys, ks) = nk_key
                hits == KeepIdx(targets, hit)
            IN  [i \in 1..Len(hits) |-> hits[i].identity_keys]
    IN  FlattenSeq([k \in 1..Len(c.lookup_key_sets) |-> OfKeySet(c.lookup_key_sets[k])])

\* The message of an EarlyFeedback: the kind of its text and the identity maps its text
\* lists. NoMessage is fb.message.as_deref().unwrap_or("").
NoMessage == [text |-> "", ids |-> <<>>]

\* One iteration of the loop of correlate_entities over the source rows.
CorrelateRow(sr, targets, c) ==
    LET id_key == json_map_to_key(sr.identity_keys)
        id_match == /\ DOMAIN sr.identity_keys /= {}
                    /\ id_key /= {}
                    /\ \E i \in DOMAIN targets : json_map_to_key(targets[i].identity_keys) = id_key
        try_nk == ~id_match /\ DOMAIN sr.lookup_keys /= {} /\ ~sr.lookup_cols_are_null
        matches == IF try_nk THEN LookupMatches(sr, targets, c) ELSE <<>>
        all_matched_entities == {json_map_to_key(matches[i]) : i \in DOMAIN matches}
        first_seen(i) == \A j \in 1..(i - 1) :
                            json_map_to_key(matches[j]) /= json_map_to_key(matches[i])
        all_matched_id_maps == KeepIdx(matches, first_seen)
        first_discovered_identity == IF matches = <<>> THEN None ELSE Some(matches[1])
        n == Cardinality(all_matched_entities)
        is_new == ~id_match /\ n = 0
        discovered_identity == IF id_match THEN Some(sr.identity_keys)
                               ELSE IF n >= 1 THEN first_discovered_identity
                               ELSE None
        canonical_nk == IF ~id_match /\ n = 1 THEN Some(strip_nulls(sr.lookup_keys)) ELSE None
        ambiguous == ~id_match /\ n > 1
        unidentifiable == /\ is_new
                          /\ ~sr.is_identifiable
                          /\ sr.lookup_cols_are_null
                          /\ ~c.founding_mode
                          /\ c.strategy /= "IdentityKeyOnly"
        early_feedback ==
            IF ambiguous THEN
                Some([action |-> "ERROR",
                      message |-> [text |-> "ambiguous", ids |-> all_matched_id_maps]])
            ELSE IF unidentifiable THEN
                Some([action |-> "ERROR",
                      message |-> [text |-> "unidentifiable", ids |-> <<>>]])
            ELSE None
    IN  [source |-> sr,
         is_new_entity |-> is_new,
         grouping_key |-> build_grouping_key(sr, is_new, discovered_identity, canonical_nk, c),
         discovered_identity |-> discovered_identity,
         canonical_nk_json |-> canonical_nk,
         early_feedback |-> early_feedback,
         is_eclipsed |-> FALSE]

correlate_entities(sources, targets, c) ==
    [i \in 1..Len(sources) |-> CorrelateRow(sources[i], targets, c)]

-----------------------------------------------------------------------------
(* sweep.rs: Phase 1.5, canonical natural keys of new entities *)

\* find/union: the indices united with those of S through the pairs of links.
RECURSIVE Component(_, _)
Component(S, links) ==
    LET next == S \cup {l[2] : l \in {k \in links : k[1] \in S}}
    IN  IF next = S THEN S ELSE Component(next, links)

\* A plausible slip in canonicalize_new_entity_nks: the early return is always taken.
canonicalize_new_entity_nksSkipped(m, c) == m

canonicalize_new_entity_nks(m, c) ==
    IF c.all_lookup_cols = <<>> \/ c.lookup_key_sets = <<>> THEN m
    ELSE
        LET new_indices == {i \in DOMAIN m : m[i].is_new_entity /\ IsNone(m[i].early_feedback)}
            nk_maps == [i \in new_indices |-> strip_nulls(m[i].source.lookup_keys)]
            shares(i, j) == \E k \in DOMAIN c.lookup_key_sets :
                                /\ build_key_for_cols(nk_maps[i], c.lookup_key_sets[k]) /= <<>>
                                /\ build_key_for_cols(nk_maps[i], c.lookup_key_sets[k])
                                     = build_key_for_cols(nk_maps[j], c.lookup_key_sets[k])
            links == {p \in new_indices \X new_indices : shares(p[1], p[2])}
            component_canonical(i) ==
                LET comp == Component({i}, links)
                    cols == UNION {DOMAIN nk_maps[j] : j \in comp}
                    \* entry.insert only if the key is absent: the lowest index wins
                    first(k) == CHOOSE j \in comp :
                                    /\ k \in DOMAIN nk_maps[j]
                                    /\ \A j2 \in comp : k \in DOMAIN nk_maps[j2] => j <= j2
                IN  [k \in cols |-> nk_maps[first(k)][k]]
            canon(i) ==
                LET canonical == component_canonical(i)
                IN  IF canonical /= nk_maps[i] THEN
                        [m[i] EXCEPT !.canonical_nk_json = Some(canonical),
                                     !.grouping_key = build_grouping_key(
                                         m[i].source, TRUE, m[i].discovered_identity,
                                         Some(canonical), c)]
                    ELSE m[i]
        IN  [i \in DOMAIN m |-> IF i \in new_indices THEN canon(i) ELSE m[i]]

-----------------------------------------------------------------------------
(* sweep.rs: Phase 2, eclipse detection *)

\* The loop of multirange_add that merges overlapping or adjacent intervals of the
\* sorted list into `merged`.
RECURSIVE MergeIntervals(_, _)
MergeIntervals(sorted, merged) ==
    IF sorted = <<>> THEN merged
    ELSE LET interval == Head(sorted)
             n == Len(merged)
         IN  IF n > 0 /\ temporal_cmp(interval[1], merged[n][2]) /= 1 THEN
                 IF temporal_cmp(interval[2], merged[n][2]) = 1
                 THEN MergeIntervals(Tail(sorted), [merged EXCEPT ![n] = <<merged[n][1], interval[2]>>])
                 ELSE MergeIntervals(Tail(sorted), merged)
             ELSE MergeIntervals(Tail(sorted), Append(merged, interval))

\* A plausible slip in multirange_add: the interval pushed, the list left unmerged.
multirange_addUnmerged(mr, from, until) == Append(mr, <<from, until>>)

multirange_add(mr, from, until) ==
    LET from_of(iv) == iv[1]
    IN  MergeIntervals(SortByKey(Append(mr, <<from, until>>), from_of), <<>>)

multirange_contains(mr, from, until) ==
    \E i \in DOMAIN mr : temporal_cmp(mr[i][1], from) /= 1 /\ temporal_cmp(mr[i][2], until) /= -1

\* The partition key of detect_eclipsed, as the set of its "col=val" parts.
PartitionKey(ms, c) ==
    LET val(col) == IF MapHas(ms.source.lookup_keys, col) THEN ms.source.lookup_keys[col]
                    ELSE MapGet(ms.source.identity_keys, col)
        parts == {<<c.all_lookup_cols[i], val(c.all_lookup_cols[i])>> :
                    i \in {j \in DOMAIN c.all_lookup_cols : val(c.all_lookup_cols[j]) /= NULL}}
    IN  IF parts = {} THEN {<<"causal_", ms.source.causal_id>>} ELSE parts

\* The loop over one partition, newest row first: the indices it marks eclipsed.
\* Each element of `order` is <<index, has early feedback, valid_from, valid_until>>.
RECURSIVE EclipseWalk(_, _)
EclipseWalk(order, mr) ==
    IF order = <<>> THEN {}
    ELSE LET e == Head(order)
         IN  IF e[2] THEN EclipseWalk(Tail(order), mr)
             ELSE (IF multirange_contains(mr, e[3], e[4]) THEN {e[1]} ELSE {})
                  \cup EclipseWalk(Tail(order), multirange_add(mr, e[3], e[4]))

detect_eclipsed(m, c) ==
    LET key(i) == PartitionKey(m[i], c)
        entry(i) == <<i, IsSome(m[i].early_feedback), m[i].source.valid_from, m[i].source.valid_until>>
        members(i) == LET same(j) == key(j) = key(i)
                      IN  KeepIdx([j \in DOMAIN m |-> entry(j)], same)
        desc(e) == 0 - m[e[1]].source.row_id
        eclipsed(i) == LET part == members(i)
                       IN  Len(part) > 1 /\ i \in EclipseWalk(SortByKey(part, desc), <<>>)
    IN  [i \in DOMAIN m |-> [m[i] EXCEPT !.is_eclipsed = eclipsed(i)]]

-----------------------------------------------------------------------------
(* sweep.rs: Phase 3, grouping by entity *)

\* The keys of a BTreeMap<String, _> in iteration order.
RECURSIVE SortGroupingKeys(_)
SortGroupingKeys(S) ==
    IF S = {} THEN <<>>
    ELSE LET k == CHOOSE x \in S : \A y \in S \ {x} : GroupingKeyLess(x, y)
         IN  <<k>> \o SortGroupingKeys(S \ {k})

\* The grouping key group_by_entity builds for a target row.
TargetGroupingKey(tr, c) ==
    <<K_EXISTING>> \o [i \in 1..Len(c.identity_columns) |->
                           MapGet(tr.identity_keys, c.identity_columns[i])]

group_by_entity(m, targets, c) ==
    LET source_keys == {m[i].grouping_key : i \in DOMAIN m}
        target_keys == IF deletes_entities(c.delete_mode)
                       THEN {TargetGroupingKey(targets[i], c) : i \in DOMAIN targets}
                       ELSE {}
        keys == SortGroupingKeys(source_keys \cup target_keys)
        group(k) ==
            LET of_source(i) == m[i].grouping_key = k
                of_target(i) == TargetGroupingKey(targets[i], c) = k
                srcs == KeepIdx(m, of_source)
                tgts == KeepIdx(targets, of_target)
            IN  [grouping_key |-> k,
                 is_new_entity |-> IF srcs /= <<>> THEN srcs[1].is_new_entity ELSE FALSE,
                 identity_keys |->
                     IF srcs = <<>> THEN tgts[1].identity_keys
                     ELSE IF IsSome(srcs[1].discovered_identity)
                          THEN Unwrap(srcs[1].discovered_identity)
                          ELSE srcs[1].source.identity_keys,
                 source_rows |-> srcs,
                 target_rows |-> tgts]
    IN  [i \in 1..Len(keys) |-> group(keys[i])]

\* A plausible slip in filter_by_mode: the two retain conditions exchanged.
filter_by_modeSwapped(active_sources, c) ==
    LET is_new(i) == active_sources[i].is_new_entity
        is_existing(i) == ~active_sources[i].is_new_entity
    IN  IF c.mode = "INSERT_NEW_ENTITIES" THEN KeepIdx(active_sources, is_existing)
        ELSE IF is_for_portion_of(c.mode) THEN KeepIdx(active_sources, is_new)
        ELSE active_sources

\* filter_by_mode
filter_by_mode(active_sources, c) ==
    LET is_new(i) == active_sources[i].is_new_entity
        is_existing(i) == ~active_sources[i].is_new_entity
    IN  IF c.mode = "INSERT_NEW_ENTITIES" THEN KeepIdx(active_sources, is_new)
        ELSE IF is_for_portion_of(c.mode) THEN KeepIdx(active_sources, is_existing)
        ELSE active_sources

-----------------------------------------------------------------------------
(* sweep.rs: Phase 4a, atomic segmentation *)

\* A set of bounds as a sorted, deduplicated vector.
RECURSIVE SortedBounds(_)
SortedBounds(S) ==
    IF S = {} THEN <<>>
    ELSE LET lo == CHOOSE x \in S : \A y \in S : temporal_cmp(x, y) /= 1
         IN  <<lo>> \o SortedBounds(S \ {lo})

build_atomic_segments(group, active_sources, c) ==
    LET boundaries == SortedBounds(
            {active_sources[i].source.valid_from : i \in DOMAIN active_sources}
            \cup {active_sources[i].source.valid_until : i \in DOMAIN active_sources}
            \cup {group.target_rows[i].valid_from : i \in DOMAIN group.target_rows}
            \cup {group.target_rows[i].valid_until : i \in DOMAIN group.target_rows})
        causal_ids == {active_sources[i].source.causal_id : i \in DOMAIN active_sources}
        causal_id == IF active_sources = <<>> THEN None
                     ELSE IF group.is_new_entity THEN Some(active_sources[1].source.causal_id)
                     ELSE Some(CHOOSE x \in causal_ids : \A y \in causal_ids : x <= y)
        proper(i) == temporal_cmp(boundaries[i], boundaries[i + 1]) = -1
        windows == KeepIdx([i \in 1..(Len(boundaries) - 1) |-> i], proper)
    IN  [w \in 1..Len(windows) |->
            [grouping_key |-> group.grouping_key,
             valid_from |-> boundaries[windows[w]],
             valid_until |-> boundaries[windows[w] + 1],
             is_new_entity |-> group.is_new_entity,
             identity_keys |-> group.identity_keys,
             causal_id |-> causal_id]]

-----------------------------------------------------------------------------
(* sweep.rs: Phase 4b, payload resolution *)

\* A plausible slip in resolve_source_payload: the nulls of a source payload never
\* override, whatever the mode.
OverridingFieldsStripNulls(payload, c) == strip_nulls(payload)

\* A plausible slip in resolve_source_payload: every field of a source payload overrides,
\* null or not.
OverridingFieldsAll(payload, c) == payload

\* The fields of a source payload that override the merged payload: PATCH strips every
\* null, the other modes strip the nulls of the exclude_if_null columns.
OverridingFields(payload, c) ==
    IF is_patch(c.mode) THEN strip_nulls(payload)
    ELSE [k \in {x \in DOMAIN payload :
                    ~(payload[x] = NULL /\ x \in c.exclude_if_null_columns)} |-> payload[k]]

\* The loop of resolve_source_payload over the covering sources.
RECURSIVE ApplySources(_, _, _)
ApplySources(merged, srcs, c) ==
    IF srcs = <<>> THEN merged
    ELSE ApplySources(MapOverlay(merged, OverridingFields(Head(srcs).source.data_payload, c)),
                      Tail(srcs), c)

\* A vector of row ids without its repeated entries (first occurrence kept).
DedupKeepFirst(ids) ==
    LET first(i) == \A j \in 1..(i - 1) : ids[j] /= ids[i]
    IN  KeepIdx(ids, first)

resolve_source_payload(covering_sources, covering_target, c) ==
    IF covering_sources = <<>> THEN
        [data |-> IF IsSome(covering_target) THEN Some(Unwrap(covering_target).data_payload)
                  ELSE None,
         row_ids |-> <<>>]
    ELSE
        LET base == IF IsSome(covering_target) THEN Unwrap(covering_target).data_payload
                    ELSE EmptyMap
        IN  [data |-> Some(ApplySources(base, covering_sources, c)),
             row_ids |-> IF is_last_writer_wins(c.mode)
                         THEN <<Last(covering_sources).source.row_id>>
                         ELSE DedupKeepFirst([i \in DOMAIN covering_sources |->
                                                 covering_sources[i].source.row_id])]

\* The data_hash of a payload: xxh3 of the null-stripped payload, taken as injective.
DataHash(data_payload) ==
    IF IsSome(data_payload) THEN Some(strip_nulls(Unwrap(data_payload))) ELSE None

\* One iteration of the loop of resolve_payloads: None when the segment is skipped.
ResolveSegment(seg, active_sources, targets, c) ==
    LET covers_s(i) == /\ temporal_cmp(active_sources[i].source.valid_from, seg.valid_from) /= 1
                       /\ temporal_cmp(active_sources[i].source.valid_until, seg.valid_until) /= -1
        row_id_of(s) == s.source.row_id
        covering_sources == SortByKey(KeepIdx(active_sources, covers_s), row_id_of)
        covers_t(i) == /\ temporal_cmp(targets[i].valid_from, seg.valid_from) /= 1
                       /\ temporal_cmp(targets[i].valid_until, seg.valid_until) /= -1
        covering_targets == KeepIdx(targets, covers_t)
        covering_target == IF covering_targets = <<>> THEN None ELSE Some(covering_targets[1])
        has_source == covering_sources /= <<>>
        has_target == IsSome(covering_target)
        payload == IF c.mode = "DELETE_FOR_PORTION_OF" /\ has_source
                   THEN [data |-> None,
                         row_ids |-> [i \in DOMAIN covering_sources |->
                                         covering_sources[i].source.row_id]]
                   ELSE resolve_source_payload(covering_sources, covering_target, c)
        source_from == IF has_source THEN Some(covering_sources[1].source.valid_from) ELSE None
        source_until == IF has_source THEN Some(Last(covering_sources).source.valid_until) ELSE None
        target_from == IF has_target THEN Some(Unwrap(covering_target).valid_from) ELSE None
        target_until == IF has_target THEN Some(Unwrap(covering_target).valid_until) ELSE None
        s_t_relation == IF has_source /\ has_target
                        THEN AllenCompute(Unwrap(source_from), Unwrap(source_until),
                                          Unwrap(target_from), Unwrap(target_until))
                        ELSE "none"
        ephemeral_payload ==
            IF has_source THEN
                Some(MapOverlay(IF has_target THEN Unwrap(covering_target).ephemeral_payload
                                ELSE EmptyMap,
                                OverridingFields(Last(covering_sources).source.ephemeral_payload, c)))
            ELSE IF has_target THEN Some(Unwrap(covering_target).ephemeral_payload)
            ELSE None
        skipped == \/ IsNone(payload.data) /\ ~has_target
                   \/ is_for_portion_of(c.mode) /\ ~has_target /\ has_source
                   \/ IsNone(payload.data) /\ c.mode = "DELETE_FOR_PORTION_OF" /\ has_source
        \* target-only segment of an entity that has sources: the causal source
        propagate == ~has_source /\ active_sources /= <<>>
        shares(i) == \/ active_sources[i].source.valid_from = seg.valid_until
                     \/ active_sources[i].source.valid_until = seg.valid_from
        sharing == KeepIdx(active_sources, shares)
        causal == IF sharing /= <<>> THEN sharing[1] ELSE active_sources[1]
        propagated_st ==
            IF /\ has_target
               /\ temporal_cmp(causal.source.valid_from, Unwrap(target_until)) = -1
               /\ temporal_cmp(causal.source.valid_until, Unwrap(target_from)) = 1
            THEN AllenCompute(causal.source.valid_from, causal.source.valid_until,
                              Unwrap(target_from), Unwrap(target_until))
            ELSE "none"
        segment_causal_id == IF seg.is_new_entity /\ has_source
                             THEN Some(Last(covering_sources).source.causal_id)
                             ELSE seg.causal_id
    IN  IF skipped THEN None
        ELSE Some(
            [grouping_key |-> seg.grouping_key,
             valid_from |-> seg.valid_from,
             valid_until |-> seg.valid_until,
             is_new_entity |-> seg.is_new_entity,
             identity_keys |-> seg.identity_keys,
             causal_id |-> segment_causal_id,
             row_ids |-> IF propagate THEN <<causal.source.row_id>> ELSE payload.row_ids,
             source_valid_from |-> IF propagate THEN Some(causal.source.valid_from) ELSE source_from,
             source_valid_until |-> IF propagate THEN Some(causal.source.valid_until) ELSE source_until,
             target_valid_from |-> target_from,
             target_valid_until |-> target_until,
             data_payload |-> payload.data,
             ephemeral_payload |-> ephemeral_payload,
             target_data_payload |-> IF has_target THEN Some(Unwrap(covering_target).data_payload)
                                     ELSE None,
             data_hash |-> DataHash(payload.data),
             has_source_coverage |-> has_source,
             has_target_coverage |-> has_target,
             s_t_relation |-> IF propagate THEN propagated_st ELSE s_t_relation])

resolve_payloads(segments, active_sources, targets, c) ==
    FlattenSeq([i \in DOMAIN segments |-> ResolveSegment(segments[i], active_sources, targets, c)])

-----------------------------------------------------------------------------
(* sweep.rs: Phase 4c, coalescing *)

\* The CoalescedSegment a resolved segment starts.
NewCoalesced(seg) ==
    [grouping_key |-> seg.grouping_key,
     valid_from |-> seg.valid_from,
     valid_until |-> seg.valid_until,
     is_new_entity |-> seg.is_new_entity,
     identity_keys |-> seg.identity_keys,
     causal_id |-> seg.causal_id,
     row_ids |-> seg.row_ids,
     data_payload |-> seg.data_payload,
     ephemeral_payload |-> seg.ephemeral_payload,
     ancestor_valid_from |-> seg.target_valid_from,
     data_hash |-> seg.data_hash,
     has_source_coverage |-> seg.has_source_coverage,
     has_target_coverage |-> seg.has_target_coverage,
     s_t_relation |-> seg.s_t_relation]

\* A plausible slip in coalesce_segments: the data hash is not compared.
can_mergeIgnoringHash(current, seg) ==
    /\ IsSome(current)
    /\ Unwrap(current).grouping_key = seg.grouping_key
    /\ Unwrap(current).valid_until = seg.valid_from

\* The test of the loop of coalesce_segments: `seg` extends the open segment `current`.
can_merge(current, seg) ==
    /\ IsSome(current)
    /\ Unwrap(current).grouping_key = seg.grouping_key
    /\ Unwrap(current).valid_until = seg.valid_from
    /\ IsSome(Unwrap(current).data_hash)
    /\ Unwrap(current).data_hash = seg.data_hash

\* The segment `cur` extended by the resolved segment `seg`.
MergeInto(cur, seg) ==
    [cur EXCEPT
        !.valid_until = seg.valid_until,
        !.row_ids = cur.row_ids \o seg.row_ids,
        !.ephemeral_payload = IF IsSome(seg.ephemeral_payload) THEN seg.ephemeral_payload
                              ELSE cur.ephemeral_payload,
        !.has_source_coverage = cur.has_source_coverage \/ seg.has_source_coverage,
        !.has_target_coverage = cur.has_target_coverage \/ seg.has_target_coverage,
        !.ancestor_valid_from = IF IsNone(cur.ancestor_valid_from) /\ IsSome(seg.target_valid_from)
                                THEN seg.target_valid_from ELSE cur.ancestor_valid_from,
        !.s_t_relation = IF cur.s_t_relation = "none" /\ seg.s_t_relation /= "none"
                         THEN seg.s_t_relation ELSE cur.s_t_relation]

\* The loop of coalesce_segments: `out` is the vector pushed so far, `current` the open segment.
RECURSIVE CoalesceLoop(_, _, _)
CoalesceLoop(segs, out, current) ==
    IF segs = <<>> THEN out \o current
    ELSE IF can_merge(current, Head(segs))
         THEN CoalesceLoop(Tail(segs), out, Some(MergeInto(Unwrap(current), Head(segs))))
         ELSE CoalesceLoop(Tail(segs), out \o current, Some(NewCoalesced(Head(segs))))

coalesce_segments(res) ==
    LET merged == CoalesceLoop(res, <<>>, None)
    IN  [i \in DOMAIN merged |->
            [merged[i] EXCEPT !.row_ids = SortedBounds(Range(merged[i].row_ids))]]

-----------------------------------------------------------------------------
(* sweep.rs: Phase 4d, diff *)

compute_diff(coal, targets) ==
    LET \* target_by_from: a later row with the same valid_from replaces an earlier one
        by_from(af) == {i \in DOMAIN targets :
                            /\ targets[i].valid_from = af
                            /\ \A j \in DOMAIN targets : targets[j].valid_from = af => j <= i}
        target_match(cs) == IF IsSome(cs.ancestor_valid_from)
                            THEN by_from(Unwrap(cs.ancestor_valid_from)) ELSE {}
        matched_target_froms ==
            {targets[i].valid_from : i \in UNION {target_match(coal[k]) : k \in DOMAIN coal}}
        of_segment(cs) ==
            LET hit == target_match(cs) /= {}
                tr == targets[CHOOSE i \in target_match(cs) : TRUE]
            IN  [grouping_key |-> cs.grouping_key,
                 is_new_entity |-> cs.is_new_entity,
                 identity_keys |-> cs.identity_keys,
                 causal_id |-> cs.causal_id,
                 row_ids |-> cs.row_ids,
                 final_valid_from |-> Some(cs.valid_from),
                 final_valid_until |-> Some(cs.valid_until),
                 final_payload |-> cs.data_payload,
                 target_valid_from |-> IF hit THEN Some(tr.valid_from) ELSE None,
                 target_valid_until |-> IF hit THEN Some(tr.valid_until) ELSE None,
                 target_payload |-> IF hit THEN Some(tr.data_payload) ELSE None,
                 ephemeral_payload |-> cs.ephemeral_payload,
                 has_source_coverage |-> cs.has_source_coverage,
                 s_t_relation |-> cs.s_t_relation,
                 target_ephemeral |-> IF hit THEN Some(tr.ephemeral_payload) ELSE None,
                 target_lookup_keys |-> IF hit THEN Some(tr.lookup_keys) ELSE None,
                 target_pk_payload |-> IF hit THEN Some(tr.pk_payload) ELSE None]
        unmatched(i) == targets[i].valid_from \notin matched_target_froms
        of_target(tr) ==
            [grouping_key |-> IF coal = <<>> THEN <<>> ELSE coal[1].grouping_key,
             is_new_entity |-> FALSE,
             identity_keys |-> tr.identity_keys,
             causal_id |-> None,
             row_ids |-> <<>>,
             final_valid_from |-> None,
             final_valid_until |-> None,
             final_payload |-> None,
             target_valid_from |-> Some(tr.valid_from),
             target_valid_until |-> Some(tr.valid_until),
             target_payload |-> Some(tr.data_payload),
             ephemeral_payload |-> None,
             has_source_coverage |-> FALSE,
             s_t_relation |-> "none",
             target_ephemeral |-> Some(tr.ephemeral_payload),
             target_lookup_keys |-> Some(tr.lookup_keys),
             target_pk_payload |-> Some(tr.pk_payload)]
        deleted == KeepIdx(targets, unmatched)
    IN  [k \in DOMAIN coal |-> of_segment(coal[k])]
        \o [k \in DOMAIN deleted |-> of_target(deleted[k])]

-----------------------------------------------------------------------------
(* sweep.rs: Phase 4e, classification *)

compute_update_effect(old_from, old_until, new_from, new_until) ==
    LET cmp_from == temporal_cmp(new_from, old_from)
        cmp_until == temporal_cmp(new_until, old_until)
    IN  IF cmp_from = 0 /\ cmp_until = 0 THEN "NONE"
        ELSE IF cmp_from /= -1 /\ cmp_until /= 1 THEN "SHRINK"
        ELSE IF cmp_from /= 1 /\ cmp_until /= -1 THEN "GROW"
        ELSE "MOVE"

\* (Some(a), Some(b)) => maps_equal_ignoring_nulls(a, b), (None, None) => true, _ => false
OptionMapsEqual(a, b) ==
    IF IsSome(a) /\ IsSome(b) THEN maps_equal_ignoring_nulls(Unwrap(a), Unwrap(b))
    ELSE IsNone(a) /\ IsNone(b)

classify_single_diff(d, update_rank) ==
    IF IsNone(d.target_valid_from) /\ IsSome(d.final_valid_from) THEN
        [operation |-> "INSERT", update_effect |-> None]
    ELSE IF IsSome(d.target_valid_from) /\ IsNone(d.final_valid_from) THEN
        [operation |-> "DELETE", update_effect |-> None]
    ELSE IF IsSome(d.target_valid_from) /\ IsSome(d.final_valid_from) THEN
        LET t_from == Unwrap(d.target_valid_from)
            t_until == Unwrap(d.target_valid_until)
            f_from == Unwrap(d.final_valid_from)
            f_until == Unwrap(d.final_valid_until)
            payload_identical ==
                OptionMapsEqual(merge_data_ephemeral(d.final_payload, d.ephemeral_payload),
                                merge_data_ephemeral(d.target_payload, d.target_ephemeral))
        IN  IF f_from = t_from /\ f_until = t_until /\ payload_identical THEN
                [operation |-> "SKIP_IDENTICAL", update_effect |-> None]
            ELSE IF IsSome(update_rank) /\ Unwrap(update_rank) /= 1 THEN
                [operation |-> "INSERT", update_effect |-> None]
            ELSE
                [operation |-> "UPDATE",
                 update_effect |-> Some(compute_update_effect(t_from, t_until, f_from, f_until))]
    ELSE [operation |-> "ERROR", update_effect |-> None]

\* A plausible slip in the sort of update_ranks: the rows ordered by their bounds alone.
UpdateRankByBounds(diff_rows, i) ==
    LET ranked(j) == IsSome(diff_rows[j].target_valid_from) /\ IsSome(diff_rows[j].final_valid_from)
        key(j) == <<Unwrap(diff_rows[j].final_valid_from), Unwrap(diff_rows[j].final_valid_until)>>
        less(a, b) == \E n \in 1..2 : a[n] < b[n] /\ \A k \in 1..(n - 1) : a[k] = b[k]
        before(j) == less(key(j), key(i)) \/ (key(j) = key(i) /\ j < i)
        bucket == {j \in DOMAIN diff_rows :
                      ranked(j) /\ diff_rows[j].target_valid_from = diff_rows[i].target_valid_from}
    IN  IF ranked(i) THEN Some(1 + Cardinality({j \in bucket \ {i} : before(j)})) ELSE None

\* update_ranks of classify_operations: the rank of diff row i among the rows that share
\* its target row, None for a row without target or without final segment.
UpdateRank(diff_rows, i) ==
    LET ranked(j) == IsSome(diff_rows[j].target_valid_from) /\ IsSome(diff_rows[j].final_valid_from)
        starts(j) == diff_rows[j].final_valid_from = diff_rows[j].target_valid_from
        same_payload(j) == OptionMapsEqual(diff_rows[j].final_payload, diff_rows[j].target_payload)
        flag(b) == IF b THEN 0 ELSE 1
        key(j) == <<flag(starts(j)), flag(same_payload(j)),
                    Unwrap(diff_rows[j].final_valid_from), Unwrap(diff_rows[j].final_valid_until)>>
        less(a, b) == \E n \in 1..4 : a[n] < b[n] /\ \A k \in 1..(n - 1) : a[k] = b[k]
        before(j) == less(key(j), key(i)) \/ (key(j) = key(i) /\ j < i)
        bucket == {j \in DOMAIN diff_rows :
                      ranked(j) /\ diff_rows[j].target_valid_from = diff_rows[i].target_valid_from}
    IN  IF ranked(i) THEN Some(1 + Cardinality({j \in bucket \ {i} : before(j)})) ELSE None

\* group_lookup_keys of classify_operations
GroupLookupKeys(group, c) ==
    IF c.all_lookup_cols = <<>> THEN Some(EmptyMap)
    ELSE IF group.source_rows /= <<>> THEN
        LET sr == group.source_rows[1].source
            of_source(col) == IF MapHas(sr.identity_keys, col) THEN sr.identity_keys[col]
                              ELSE IF MapHas(sr.lookup_keys, col) THEN sr.lookup_keys[col]
                              ELSE MapGet(sr.data_payload, col)
            of_target(col) ==
                LET tr == group.target_rows[1]
                IN  IF MapHas(tr.lookup_keys, col) THEN tr.lookup_keys[col]
                    ELSE IF MapHas(tr.identity_keys, col) THEN tr.identity_keys[col]
                    ELSE of_source(col)
            val(col) == IF of_source(col) = NULL /\ ~group.is_new_entity /\ group.target_rows /= <<>>
                        THEN of_target(col) ELSE of_source(col)
        IN  Some([col \in Range(c.all_lookup_cols) |-> val(col)])
    ELSE IF group.target_rows /= <<>> THEN
        LET tr == group.target_rows[1]
        IN  Some([col \in Range(c.all_lookup_cols) |->
                    IF MapHas(tr.lookup_keys, col) THEN tr.lookup_keys[col]
                    ELSE MapGet(tr.identity_keys, col)])
    ELSE None

\* for (k, v) in extra { if !ek.contains_key(k) { ek.insert(k, v) } }
MapFill(ek, extra) == MapOverlay(extra, ek)

\* One iteration of the loop of classify_operations over the diff rows: the plan row it
\* pushes, None when the row is suppressed. plan_op_seq is set by the caller's counter.
ClassifyRow(diff_rows, i, group, c) ==
    LET d == diff_rows[i]
        cls == classify_single_diff(d, UpdateRank(diff_rows, i))
        has_active_sources == \E k \in DOMAIN group.source_rows :
                                  /\ IsNone(group.source_rows[k].early_feedback)
                                  /\ ~group.source_rows[k].is_eclipsed
        target_only == cls.operation = "SKIP_IDENTICAL" /\ ~d.has_source_coverage
        should_delete == \/ has_active_sources /\ deletes_timeline(c.delete_mode)
                         \/ ~has_active_sources /\ deletes_entities(c.delete_mode)
        operation == IF target_only /\ should_delete THEN "DELETE" ELSE cls.operation
        both == IsSome(d.target_valid_from) /\ IsSome(d.final_valid_from)
        b_a_relation == IF both THEN AllenCompute(Unwrap(d.target_valid_from),
                                                  Unwrap(d.target_valid_until),
                                                  Unwrap(d.final_valid_from),
                                                  Unwrap(d.final_valid_until))
                        ELSE "none"
        data == IF IsSome(d.final_payload)
                THEN Some(MapOverlay(Unwrap(d.final_payload),
                                     IF IsSome(d.ephemeral_payload) THEN Unwrap(d.ephemeral_payload)
                                     ELSE EmptyMap))
                ELSE None
        group_lookup_keys == GroupLookupKeys(group, c)
        ek == MapFill(MapFill(d.identity_keys,
                              IF IsSome(group_lookup_keys) THEN Unwrap(group_lookup_keys)
                              ELSE EmptyMap),
                      IF IsSome(d.target_pk_payload) THEN Unwrap(d.target_pk_payload)
                      ELSE EmptyMap)
        entity_keys == IF DOMAIN ek = {} THEN None ELSE Some(ek)
        identity_keys == IF DOMAIN d.identity_keys = {} THEN None ELSE Some(d.identity_keys)
        is_delete == operation = "DELETE"
    IN  IF target_only /\ ~should_delete THEN None
        ELSE Some(
            [plan_op_seq |-> 0,
             statement_seq |-> 0,
             row_ids |-> IF is_delete THEN <<>> ELSE d.row_ids,
             operation |-> operation,
             update_effect |-> IF is_delete THEN None ELSE cls.update_effect,
             causal_id |-> IF is_delete THEN None ELSE d.causal_id,
             is_new_entity |-> d.is_new_entity,
             entity_keys |-> entity_keys,
             identity_keys |-> identity_keys,
             lookup_keys |-> group_lookup_keys,
             s_t_relation |-> IF is_delete THEN "none" ELSE d.s_t_relation,
             b_a_relation |-> IF is_delete THEN "none" ELSE b_a_relation,
             old_valid_from |-> d.target_valid_from,
             old_valid_until |-> d.target_valid_until,
             new_valid_from |-> IF is_delete THEN None ELSE d.final_valid_from,
             new_valid_until |-> IF is_delete THEN None ELSE d.final_valid_until,
             data |-> IF is_delete THEN None ELSE data,
             feedback |-> None,
             grouping_key |-> IF is_delete THEN <<>> ELSE d.grouping_key])

classify_operations(diff_rows, group, c) ==
    LET pushed == FlattenSeq([i \in DOMAIN diff_rows |-> ClassifyRow(diff_rows, i, group, c)])
    IN  [k \in DOMAIN pushed |-> [pushed[k] EXCEPT !.plan_op_seq = k]]

-----------------------------------------------------------------------------
(* sweep.rs: feedback rows *)

\* for (k, v) in disc { if ek.get(k).map_or(true, |sv| sv.is_null()) { ek.insert(k, v) } }
CoalesceIdentity(ek, discovered_identity) ==
    IF IsNone(discovered_identity) THEN ek
    ELSE LET disc == Unwrap(discovered_identity)
         IN  [k \in (DOMAIN ek) \cup (DOMAIN disc) |->
                 IF k \in DOMAIN disc /\ MapGet(ek, k) = NULL THEN disc[k] ELSE ek[k]]

make_feedback_plan_row(sr, action, message, c) ==
    LET emit_temporal == action \notin {"SKIP_NO_TARGET", "SKIP_FILTERED", "ERROR"}
        ik == CoalesceIdentity(sr.source.identity_keys, sr.discovered_identity)
    IN  [plan_op_seq |-> 0,
         statement_seq |-> 0,
         row_ids |-> <<sr.source.row_id>>,
         operation |-> action,
         update_effect |-> None,
         causal_id |-> Some(sr.source.causal_id),
         is_new_entity |-> sr.is_new_entity,
         entity_keys |-> Some(MapFill(ik, sr.source.lookup_keys)),
         identity_keys |-> Some(ik),
         lookup_keys |-> Some(sr.source.lookup_keys),
         s_t_relation |-> "none",
         b_a_relation |-> "none",
         old_valid_from |-> None,
         old_valid_until |-> None,
         new_valid_from |-> IF emit_temporal THEN Some(sr.source.valid_from) ELSE None,
         new_valid_until |-> IF emit_temporal THEN Some(sr.source.valid_until) ELSE None,
         data |-> None,
         feedback |-> IF action \in {"SKIP_NO_TARGET", "SKIP_FILTERED"}
                      THEN Some([info |-> "filtered"])
                      ELSE Some([error |-> message]),
         grouping_key |-> IF /\ sr.is_new_entity
                             /\ DOMAIN sr.source.lookup_keys = {}
                             /\ c.all_lookup_cols = <<>>
                          THEN <<K_NEW, sr.source.causal_id>>
                          ELSE sr.grouping_key]

-----------------------------------------------------------------------------
(* sweep.rs: the body of the loop of sweep_line_plan over the entity groups *)

\* The rows of a group that take part in planning.
ActiveSources(group) ==
    LET active(i) == IsNone(group.source_rows[i].early_feedback) /\ ~group.source_rows[i].is_eclipsed
    IN  KeepIdx(group.source_rows, active)

\* The feedback rows pushed for the rows with early feedback and the eclipsed rows.
EarlyFeedbackRows(group, c) ==
    LET row(sr) == IF IsSome(sr.early_feedback)
                   THEN <<make_feedback_plan_row(sr, Unwrap(sr.early_feedback).action,
                                                 Unwrap(sr.early_feedback).message, c)>>
                   ELSE IF sr.is_eclipsed
                   THEN <<make_feedback_plan_row(sr, "SKIP_ECLIPSED", NoMessage, c)>>
                   ELSE <<>>
    IN  FlattenSeq([i \in DOMAIN group.source_rows |-> row(group.source_rows[i])])

\* The feedback rows pushed for the active rows the merge mode filters out.
FilteredRows(active_sources, filtered_sources, c) ==
    LET row(sr) == IF \A i \in DOMAIN filtered_sources :
                          filtered_sources[i].source.row_id /= sr.source.row_id
                   THEN <<make_feedback_plan_row(
                            sr, IF sr.is_new_entity THEN "SKIP_NO_TARGET" ELSE "SKIP_FILTERED",
                            NoMessage, c)>>
                   ELSE <<>>
    IN  FlattenSeq([i \in DOMAIN active_sources |-> row(active_sources[i])])

\* Resolved segments of a group (empty when the loop `continue`s before segmentation).
GroupResolved(group, c) ==
    LET filtered_sources == filter_by_mode(ActiveSources(group), c)
    IN  IF filtered_sources = <<>> /\ group.target_rows = <<>> THEN <<>>
        ELSE resolve_payloads(build_atomic_segments(group, filtered_sources, c),
                              filtered_sources, group.target_rows, c)

\* The plan rows one iteration of the loop appends to all_plan_rows, `coal` being the
\* coalesced segments of the group.
GroupPlanRows(group, coal, c) ==
    LET active_sources == ActiveSources(group)
        filtered_sources == filter_by_mode(active_sources, c)
        feedback_rows == EarlyFeedbackRows(group, c)
                         \o FilteredRows(active_sources, filtered_sources, c)
    IN  IF filtered_sources = <<>> /\ group.target_rows = <<>> THEN feedback_rows
        ELSE feedback_rows
             \o classify_operations(compute_diff(coal, group.target_rows), group, c)

-----------------------------------------------------------------------------
(* sweep.rs: Phase 5, statement sequencing *)

\* The column names of the model in str::cmp order.
ColumnsSorted == <<"e", "emp", "id", "ssn", "v">>
ColumnRank(col) == CHOOSE i \in DOMAIN ColumnsSorted : ColumnsSorted[i] = col

\* json_map_to_key as the vector of its sorted parts (column, value).
EntityKeyParts(map) ==
    LET has(i) == MapHas(map, ColumnsSorted[i]) /\ map[ColumnsSorted[i]] /= NULL
        cols == KeepIdx(ColumnsSorted, has)
    IN  [i \in DOMAIN cols |-> <<ColumnRank(cols[i]), map[cols[i]]>>]

\* str::cmp of two json_map_to_key strings.
RECURSIVE EntityKeyCmp(_, _)
EntityKeyCmp(a, b) ==
    IF a = <<>> /\ b = <<>> THEN 0
    ELSE IF a = <<>> THEN -1
    ELSE IF b = <<>> THEN 1
    ELSE IF Head(a)[1] /= Head(b)[1] THEN (IF Head(a)[1] < Head(b)[1] THEN -1 ELSE 1)
    ELSE IF Head(a)[2] /= Head(b)[2] THEN (IF Head(a)[2] < Head(b)[2] THEN -1 ELSE 1)
    ELSE EntityKeyCmp(Tail(a), Tail(b))

IntCmp(a, b) == IF a < b THEN -1 ELSE IF a > b THEN 1 ELSE 0

\* Option<String>::unwrap_or(""): "" sorts before every bound.
BoundOr(o) == IF IsSome(o) THEN Unwrap(o) ELSE NONE

\* The closure handed to sort_by in sequence_statements.
PlanRowCmp(a, b) ==
    LET empty(p) == IF p.grouping_key = <<>> THEN 1 ELSE 0
        gk == IF a.grouping_key = b.grouping_key THEN 0
              ELSE IF GroupingKeyLess(a.grouping_key, b.grouping_key) THEN -1 ELSE 1
        ek_parts(p) == IF IsSome(p.entity_keys) THEN EntityKeyParts(Unwrap(p.entity_keys)) ELSE <<>>
        op_ord(p) == CASE p.operation = "DELETE" -> 1
                       [] p.operation = "UPDATE" -> 2
                       [] p.operation = "INSERT" -> 3
                       [] OTHER -> 4
        eff_ord(p) == IF IsNone(p.update_effect) THEN 0 ELSE 1
        is_move(p) == p.update_effect = Some("MOVE")
        from_of(p) == IF IsSome(p.old_valid_from) THEN Unwrap(p.old_valid_from)
                      ELSE BoundOr(p.new_valid_from)
        rid(p) == IF p.row_ids = <<>> THEN 0 ELSE p.row_ids[1]
        chain == <<IntCmp(empty(a), empty(b)),
                   gk,
                   EntityKeyCmp(ek_parts(a), ek_parts(b)),
                   IntCmp(op_ord(a), op_ord(b)),
                   IntCmp(eff_ord(a), eff_ord(b)),
                   IF is_move(a) /\ is_move(b) THEN temporal_cmp(from_of(b), from_of(a))
                   ELSE temporal_cmp(from_of(a), from_of(b)),
                   temporal_cmp(BoundOr(a.new_valid_from), BoundOr(b.new_valid_from)),
                   IntCmp(rid(a), rid(b))>>
        decided == {n \in DOMAIN chain : chain[n] /= 0}
    IN  IF decided = {} THEN 0
        ELSE chain[CHOOSE n \in decided : \A k \in decided : n <= k]

\* slice::sort_by on a short slice is an insertion sort: x is moved left past every
\* element it compares less than.
RECURSIVE InsertSorted(_, _)
InsertSorted(sorted, x) ==
    IF sorted /= <<>> /\ PlanRowCmp(x, Last(sorted)) = -1
    THEN Append(InsertSorted(SubSeq(sorted, 1, Len(sorted) - 1), x), Last(sorted))
    ELSE Append(sorted, x)

RECURSIVE SortPlanRows(_, _)
SortPlanRows(sorted, rest) ==
    IF rest = <<>> THEN sorted
    ELSE SortPlanRows(InsertSorted(sorted, Head(rest)), Tail(rest))

op_category(p) ==
    CASE p.operation = "DELETE" -> 1
      [] p.operation = "UPDATE" ->
            (CASE p.update_effect = Some("MOVE") -> 3
               [] p.update_effect = Some("GROW") -> 4
               [] OTHER -> 2)
      [] p.operation = "INSERT" -> 5
      [] OTHER -> 0

\* The distinct DML categories of the plan, sorted.
Categories(rows) ==
    SortedBounds({op_category(rows[i]) : i \in {j \in DOMAIN rows : is_dml(rows[j].operation)}})

\* categories.iter().position(|&c| c == cat), counted from 1; 0 when absent.
Position(categories, cat) ==
    IF \E i \in DOMAIN categories : categories[i] = cat
    THEN CHOOSE i \in DOMAIN categories : categories[i] = cat
    ELSE 0

\* The loop of sequence_statements that assigns statement_seq: rows[i..] are still to
\* be numbered and move_count MOVE rows have been numbered.
RECURSIVE AssignStatementSeq(_, _, _, _)
AssignStatementSeq(rows, i, move_count, categories) ==
    IF i > Len(rows) THEN rows
    ELSE LET row == rows[i]
             cat == op_category(row)
             base_seq == Position(categories, cat)
             max_dml_seq == Len(categories)
         IN  IF ~is_dml(row.operation) THEN
                 AssignStatementSeq([rows EXCEPT ![i].statement_seq = max_dml_seq + 1],
                                    i + 1, move_count, categories)
             ELSE IF cat = 3 THEN
                 AssignStatementSeq(
                     [rows EXCEPT ![i].statement_seq =
                         IF move_count + 1 = 1 THEN base_seq ELSE base_seq + (move_count + 1) - 1],
                     i + 1, move_count + 1, categories)
             ELSE IF Position(categories, 3) /= 0 /\ cat > 3 /\ move_count > 1 THEN
                 AssignStatementSeq([rows EXCEPT ![i].statement_seq = base_seq + move_count - 1],
                                    i + 1, move_count, categories)
             ELSE
                 AssignStatementSeq([rows EXCEPT ![i].statement_seq = base_seq],
                                    i + 1, move_count, categories)

sequence_statements(plan_rows) ==
    LET sorted == SortPlanRows(<<>>, plan_rows)
        numbered == [i \in DOMAIN sorted |-> [sorted[i] EXCEPT !.plan_op_seq = i]]
    IN  AssignStatementSeq(numbered, 1, 0, Categories(numbered))

\* sweep_line_plan as a function of its arguments: the phases in sequence.
sweep_line_plan(sources, targets, c) ==
    LET matched_sources == detect_eclipsed(
                               canonicalize_new_entity_nks(
                                   correlate_entities(sources, targets, c), c), c)
        entity_groups == group_by_entity(matched_sources, targets, c)
        plan_rows(group) == GroupPlanRows(group, coalesce_segments(GroupResolved(group, c)), c)
    IN  sequence_statements(
            FlattenSeq([g \in DOMAIN entity_groups |-> plan_rows(entity_groups[g])]))

-----------------------------------------------------------------------------
(* The executor of the plan (PL/pgSQL, outside src/): one statement group at a time *)

DataColumns == {"v"}
EphemeralColumns == {"e"}

Restrict(map, cols) == [k \in (DOMAIN map) \cap cols |-> map[k]]

\* The plan row is about the entity of the table row.
SameEntity(p, r, c) ==
    /\ IsSome(p.identity_keys)
    /\ \A i \in DOMAIN c.identity_columns :
           MapGet(Unwrap(p.identity_keys), c.identity_columns[i])
             = MapGet(r.identity_keys, c.identity_columns[i])

\* The table after the DML rows of statement group n have run: DELETE removes the row
\* at old_valid_from, UPDATE replaces its bounds and data, INSERT adds a row.
ApplyStatementGroup(tbl, plan, n, c) ==
    LET in_group(i) == is_dml(plan[i].operation) /\ plan[i].statement_seq = n
        hits(i, k) == /\ in_group(i)
                      /\ plan[i].operation \in {"DELETE", "UPDATE"}
                      /\ SameEntity(plan[i], tbl[k], c)
                      /\ tbl[k].valid_from = Unwrap(plan[i].old_valid_from)
        untouched(k) == \A i \in DOMAIN plan : ~hits(i, k)
        updated(i, r) ==
            [r EXCEPT !.valid_from = Unwrap(plan[i].new_valid_from),
                      !.valid_until = Unwrap(plan[i].new_valid_until),
                      !.data_payload = MapOverlay(r.data_payload,
                                                  Restrict(Unwrap(plan[i].data), DataColumns)),
                      !.ephemeral_payload = MapOverlay(r.ephemeral_payload,
                                                       Restrict(Unwrap(plan[i].data), EphemeralColumns))]
        updates(i) == IF in_group(i) /\ plan[i].operation = "UPDATE"
                      THEN LET hit(k) == hits(i, k)
                               rows == KeepIdx(tbl, hit)
                           IN  [k \in DOMAIN rows |-> updated(i, rows[k])]
                      ELSE <<>>
        inserted(i) ==
            LET ek == IF IsSome(plan[i].entity_keys) THEN Unwrap(plan[i].entity_keys) ELSE EmptyMap
            IN  [valid_from |-> Unwrap(plan[i].new_valid_from),
                 valid_until |-> Unwrap(plan[i].new_valid_until),
                 identity_keys |-> [k \in Range(c.identity_columns) |-> MapGet(ek, k)],
                 lookup_keys |-> [k \in Range(c.all_lookup_cols) |-> MapGet(ek, k)],
                 data_payload |-> [k \in DataColumns |-> MapGet(Unwrap(plan[i].data), k)],
                 ephemeral_payload |-> Restrict(Unwrap(plan[i].data), EphemeralColumns),
                 pk_payload |-> EmptyMap]
        inserts(i) == IF in_group(i) /\ plan[i].operation = "INSERT" THEN <<inserted(i)>> ELSE <<>>
    IN  KeepIdx(tbl, untouched)
        \o FlattenSeq([i \in DOMAIN plan |-> updates(i)])
        \o FlattenSeq([i \in DOMAIN plan |-> inserts(i)])

\* The positions of the table rows in the order the reader hands them to the planner:
\* by entity, then by valid_from.
RECURSIVE TableOrder(_, _, _)
TableOrder(tbl, idx, c) ==
    IF idx = {} THEN <<>>
    ELSE LET key(k) == <<K_EXISTING>> \o [i \in DOMAIN c.identity_columns |->
                                             MapGet(tbl[k].identity_keys, c.identity_columns[i])]
             before(a, b) == \/ GroupingKeyLess(key(a), key(b))
                             \/ key(a) = key(b) /\ tbl[a].valid_from < tbl[b].valid_from
                             \/ key(a) = key(b) /\ tbl[a].valid_from = tbl[b].valid_from /\ a < b
             first == CHOOSE a \in idx : \A b \in idx \ {a} : before(a, b)
         IN  <<first>> \o TableOrder(tbl, idx \ {first}, c)

ReadTarget(tbl, c) ==
    LET order == TableOrder(tbl, DOMAIN tbl, c)
    IN  [k \in DOMAIN tbl |-> tbl[order[k]]]

\* Rows k and l of the table are two rows of one entity with overlapping validity.
Overlapping(tbl, k, l, c) ==
    /\ k /= l
    /\ \A i \in DOMAIN c.identity_columns :
           MapGet(tbl[k].identity_keys, c.identity_columns[i])
             = MapGet(tbl[l].identity_keys, c.identity_columns[i])
    /\ tbl[k].valid_from < tbl[l].valid_until
    /\ tbl[l].valid_from < tbl[k].valid_until

-----------------------------------------------------------------------------
(* Inputs *)

MaxT == 3            \* bounds range over 0..MaxT
MaxSources == 2      \* source rows of a call
MaxTargets == 2      \* target rows of the entity of a call
MaxVal == 2          \* payload values range over 1..MaxVal (and null in a source row)
MaxEntities == 3     \* entities of a batch of SpecBatch

Modes == {"MERGE_ENTITY_UPSERT", "MERGE_ENTITY_PATCH", "MERGE_ENTITY_REPLACE",
          "INSERT_NEW_ENTITIES", "UPDATE_FOR_PORTION_OF", "PATCH_FOR_PORTION_OF",
          "REPLACE_FOR_PORTION_OF", "DELETE_FOR_PORTION_OF"}

DeleteModes == {"NONE", "DELETE_MISSING_TIMELINE", "DELETE_MISSING_ENTITIES",
                "DELETE_MISSING_TIMELINE_AND_ENTITIES"}

Intervals == {iv \in (0..MaxT) \X (0..MaxT) : iv[1] < iv[2]}

\* build_planner_context: identity column "id"; with `lookup`, one lookup key set <<"ssn">>.
MakeCtx(mode, delete_mode, lookup, exclude_if_null) ==
    [mode |-> mode,
     delete_mode |-> delete_mode,
     identity_columns |-> <<"id">>,
     all_lookup_cols |-> IF lookup THEN <<"ssn">> ELSE <<>>,
     lookup_key_sets |-> IF lookup THEN << <<"ssn">> >> ELSE <<>>,
     strategy |-> IF lookup THEN "Hybrid" ELSE "IdentityKeyOnly",
     founding_mode |-> FALSE,
     exclude_if_null_columns |-> exclude_if_null]

\* A source row as read_source_ordinals builds it: every column of the layout is a key
\* of its map, null included.
MakeSource(row_id, id, ssn, iv, v, c) ==
    [row_id |-> row_id,
     causal_id |-> row_id,
     valid_from |-> iv[1],
     valid_until |-> iv[2],
     identity_keys |-> [k \in {"id"} |-> id],
     lookup_keys |-> [k \in Range(c.all_lookup_cols) |-> ssn],
     data_payload |-> [k \in DataColumns |-> v],
     ephemeral_payload |-> EmptyMap,
     is_identifiable |-> c.identity_columns = <<>> \/ id /= NULL,
     lookup_cols_are_null |-> c.all_lookup_cols = <<>> \/ ssn = NULL]

MakeTarget(id, ssn, iv, v, c) ==
    [valid_from |-> iv[1],
     valid_until |-> iv[2],
     identity_keys |-> [k \in {"id"} |-> id],
     lookup_keys |-> [k \in Range(c.all_lookup_cols) |-> ssn],
     data_payload |-> [k \in DataColumns |-> v],
     ephemeral_payload |-> EmptyMap,
     pk_payload |-> EmptyMap]

\* (id, ssn) of a source row of Spec: the target entity by identity, no key at all, a
\* new entity.
SourceKeys == {<<1, 1>>, <<NULL, NULL>>, <<2, 2>>}

SourceChoices == SourceKeys \X Intervals \X (0..MaxVal)

\* The timelines of the target entity (id 1, ssn 1): rows in valid_from order that do
\* not overlap. Payload values are only ever compared for equality, so the first row
\* holds value 1.
TargetTimelines ==
    {tl \in UNION {[1..k -> Intervals \X (1..MaxVal)] : k \in 1..MaxTargets} :
        /\ tl[1][2] = 1
        /\ \A i \in 1..(Len(tl) - 1) : tl[i][1][2] <= tl[i + 1][1][1]}

\* SpecModes: every merge mode and delete mode, on a shorter time axis.
ModesMaxT == 2

ModesIntervals == {iv \in (0..ModesMaxT) \X (0..ModesMaxT) : iv[1] < iv[2]}

\* (id, ssn) of a source row of SpecModes: the target entity by its lookup key, a new entity.
ModesSourceKeys == {<<NULL, 1>>, <<2, 2>>}

ModesSourceChoices == ModesSourceKeys \X ModesIntervals \X (0..1)

-----------------------------------------------------------------------------
(* The state machine: the planner called, its plan executed statement group by
   statement group, then the planner called again *)

\* State of a call before its first phase.
CallStart ==
    /\ pc = "start"
    /\ run = 1
    /\ matched = <<>>
    /\ groups = <<>>
    /\ gi = 0
    /\ resolved = <<>>
    /\ coalesced = <<>>
    /\ all_plan_rows = <<>>
    /\ table = target_rows
    /\ stmt = 0
    /\ allen_in = <<0, 0, 0, 0>>
    /\ allen_out = <<"none", "none">>
    /\ planner_cache = <<>>
    /\ call = <<>>

\* One call in mode MERGE_ENTITY_UPSERT with delete mode NONE.
Init ==
    \E tl \in TargetTimelines, n \in 0..MaxSources :
      \E ch \in [1..n -> SourceChoices] :
        LET c == MakeCtx("MERGE_ENTITY_UPSERT", "NONE", TRUE, {})
        IN  /\ ctx = c
            /\ target_rows = [i \in DOMAIN tl |-> MakeTarget(1, 1, tl[i][1], tl[i][2], c)]
            /\ source_rows = [i \in 1..n |->
                                 MakeSource(i, ch[i][1][1], ch[i][1][2], ch[i][2], ch[i][3], c)]
            /\ CallStart

\* One call in any merge mode and delete mode, the target entity holding one row.
InitModes ==
    \E mode \in Modes, delete_mode \in DeleteModes,
       tiv \in ModesIntervals, tv \in 1..MaxVal, n \in 0..MaxSources :
      \E ch \in [1..n -> ModesSourceChoices] :
        LET c == MakeCtx(mode, delete_mode, TRUE, {})
        IN  /\ ctx = c
            /\ target_rows = <<MakeTarget(1, 1, tiv, tv, c)>>
            /\ source_rows = [i \in 1..n |->
                                 MakeSource(i, ch[i][1][1], ch[i][1][2], ch[i][2], ch[i][3], c)]
            /\ CallStart

\* sweep_line_plan, Phase 1.
CorrelateEntities ==
    /\ pc = "start"
    /\ matched' = correlate_entities(source_rows, target_rows, ctx)
    /\ pc' = "canonicalize"
    /\ UNCHANGED <<ctx, source_rows, target_rows, run, groups, gi, resolved, coalesced,
                   all_plan_rows, table, stmt, allen_in, allen_out,
                   planner_cache, call>>

\* sweep_line_plan, Phase 1.5.
CanonicalizeNewEntityNks ==
    /\ pc = "canonicalize"
    /\ matched' = canonicalize_new_entity_nks(matched, ctx)
    /\ pc' = "eclipse"
    /\ UNCHANGED <<ctx, source_rows, target_rows, run, groups, gi, resolved, coalesced,
                   all_plan_rows, table, stmt, allen_in, allen_out,
                   planner_cache, call>>

\* sweep_line_plan, Phase 2.
DetectEclipsed ==
    /\ pc = "eclipse"
    /\ matched' = detect_eclipsed(matched, ctx)
    /\ pc' = "group"
    /\ UNCHANGED <<ctx, source_rows, target_rows, run, groups, gi, resolved, coalesced,
                   all_plan_rows, table, stmt, allen_in, allen_out,
                   planner_cache, call>>

\* sweep_line_plan, Phase 3.
GroupByEntity ==
    /\ pc = "group"
    /\ groups' = group_by_entity(matched, target_rows, ctx)
    /\ gi' = 1
    /\ pc' = "groups"
    /\ UNCHANGED <<ctx, source_rows, target_rows, run, matched, resolved, coalesced,
                   all_plan_rows, table, stmt, allen_in, allen_out,
                   planner_cache, call>>

\* sweep_line_plan, Phase 4: one iteration of the loop over the entity groups.
ProcessGroup ==
    /\ pc = "groups"
    /\ gi <= Len(groups)
    /\ \E res \in {GroupResolved(groups[gi], ctx)} :
         \E coal \in {coalesce_segments(res)} :
            /\ resolved' = Append(resolved, res)
            /\ coalesced' = Append(coalesced, coal)
            /\ all_plan_rows' = all_plan_rows \o GroupPlanRows(groups[gi], coal, ctx)
    /\ gi' = gi + 1
    /\ UNCHANGED <<ctx, source_rows, target_rows, pc, run, matched, groups, table, stmt,
                   allen_in, allen_out,
                   planner_cache, call>>

\* sweep_line_plan, Phase 5, and the return of the plan.
SequenceStatements ==
    /\ pc = "groups"
    /\ gi > Len(groups)
    /\ all_plan_rows' = sequence_statements(all_plan_rows)
    /\ pc' = "planned"
    /\ UNCHANGED <<ctx, source_rows, target_rows, run, matched, groups, gi, resolved,
                   coalesced, table, stmt, allen_in, allen_out,
                   planner_cache, call>>

\* One call of sweep_line_plan, phase by phase.
SweepLinePlan ==
    \/ CorrelateEntities
    \/ CanonicalizeNewEntityNks
    \/ DetectEclipsed
    \/ GroupByEntity
    \/ ProcessGroup
    \/ SequenceStatements

\* The statement groups of the plan that hold DML.
DmlStatementSeqs == {all_plan_rows[i].statement_seq :
                        i \in {j \in DOMAIN all_plan_rows : is_dml(all_plan_rows[j].operation)}}

\* The executor runs the next statement group of the plan of the first call.
ExecuteStatementGroup ==
    /\ pc = "planned"
    /\ run = 1
    /\ \E n \in DmlStatementSeqs :
        /\ n > stmt
        /\ \A k \in DmlStatementSeqs : k > stmt => n <= k
        /\ table' = ApplyStatementGroup(table, all_plan_rows, n, ctx)
        /\ stmt' = n
    /\ UNCHANGED <<ctx, source_rows, target_rows, pc, run, matched, groups, gi, resolved,
                   coalesced, all_plan_rows, allen_in, allen_out,
                   planner_cache, call>>

\* Every statement group of the plan has run.
Executed == pc = "planned" /\ \A n \in DmlStatementSeqs : n <= stmt

\* The planner is called again with the same source rows on the merged table.
PlanAgain ==
    /\ Executed
    /\ run = 1
    /\ run' = 2
    /\ target_rows' = ReadTarget(table, ctx)
    /\ pc' = "start"
    /\ matched' = <<>>
    /\ groups' = <<>>
    /\ resolved' = <<>>
    /\ coalesced' = <<>>
    /\ all_plan_rows' = <<>>
    /\ gi' = 0
    /\ UNCHANGED <<ctx, source_rows, table, stmt, allen_in, allen_out,
                   planner_cache, call>>

\* One merge: the plan of a call, executed.
Next ==
    \/ SweepLinePlan
    \/ ExecuteStatementGroup

\* One merge, then the planner called again.
NextAgain ==
    \/ Next
    \/ PlanAgain

Spec == Init /\ [][Next]_vars

SpecModes == InitModes /\ [][NextAgain]_vars

-----------------------------------------------------------------------------
(* A call in a mode that resolves payloads, with and without the null-strip set *)

\* The merge modes whose segments carry a resolved payload.
PayloadModes == {"MERGE_ENTITY_UPSERT", "MERGE_ENTITY_PATCH", "MERGE_ENTITY_REPLACE",
                 "UPDATE_FOR_PORTION_OF", "PATCH_FOR_PORTION_OF", "REPLACE_FOR_PORTION_OF"}

\* One call, delete mode NONE, the target entity holding one row of value 1; the
\* exclude_if_null columns are none or the data column.
InitPayload ==
    \E mode \in PayloadModes, exclude_if_null \in {{}, DataColumns},
       tiv \in ModesIntervals, n \in 0..MaxSources :
      \E ch \in [1..n -> ModesSourceKeys \X ModesIntervals \X (0..MaxVal)] :
        LET c == MakeCtx(mode, "NONE", TRUE, exclude_if_null)
        IN  /\ ctx = c
            /\ target_rows = <<MakeTarget(1, 1, tiv, 1, c)>>
            /\ source_rows = [i \in 1..n |->
                                 MakeSource(i, ch[i][1][1], ch[i][1][2], ch[i][2], ch[i][3], c)]
            /\ CallStart

NextPayload ==
    \/ SweepLinePlan

SpecPayload == InitPayload /\ [][NextPayload]_vars

-----------------------------------------------------------------------------
(* A call on a target timeline of several rows, in the modes that keep to it *)

MaxTimelineSources == 1   \* source rows of a call of SpecTimeline

\* The merge modes of SpecTimeline: the *_FOR_PORTION_OF modes, INSERT_NEW_ENTITIES and
\* MERGE_ENTITY_UPSERT.
TimelineModes == {"UPDATE_FOR_PORTION_OF", "PATCH_FOR_PORTION_OF", "REPLACE_FOR_PORTION_OF",
                  "DELETE_FOR_PORTION_OF", "INSERT_NEW_ENTITIES", "MERGE_ENTITY_UPSERT"}

\* One call in a mode of TimelineModes and any delete mode: the target entity (id 1,
\* ssn 1) holds a timeline of up to MaxTargets rows, the batch is empty or holds one row,
\* of the target entity or of a new entity.
InitTimeline ==
    \E mode \in TimelineModes, delete_mode \in DeleteModes,
       tl \in TargetTimelines, n \in 0..MaxTimelineSources :
      \E ch \in [1..n -> ModesSourceKeys \X Intervals \X (1..MaxVal)] :
        LET c == MakeCtx(mode, delete_mode, TRUE, {})
        IN  /\ ctx = c
            /\ target_rows = [i \in DOMAIN tl |-> MakeTarget(1, 1, tl[i][1], tl[i][2], c)]
            /\ source_rows = [i \in 1..n |->
                                 MakeSource(i, ch[i][1][1], ch[i][1][2], ch[i][2], ch[i][3], c)]
            /\ CallStart

NextTimeline ==
    \/ SweepLinePlan

SpecTimeline == InitTimeline /\ [][NextTimeline]_vars

-----------------------------------------------------------------------------
(* A batch over several entities, identified by "id" alone *)

\* What a batch holds of one entity: its target rows and its source rows, each
\* <<interval, value>>.
\* One target row [1, 3) of value 1, an optional source row of any interval and value
\* and an optional later source row [2, 3) of value 3.
SingleTargetCases ==
    {[targets |-> << <<<<1, 3>>, 1>> >>, sources |-> s1 \o s2] :
        s1 \in {<<>>} \cup {<< <<iv, v>> >> : iv \in Intervals, v \in 1..MaxVal},
        s2 \in {<<>>, << <<<<2, 3>>, 3>> >>}}

\* Three target rows, and three source rows that shift the timeline to the right.
ThreeTargetCase ==
    [targets |-> << <<<<0, 1>>, 1>>, <<<<2, 4>>, 2>>, <<<<4, 6>>, 3>> >>,
     sources |-> << <<<<1, 3>>, 1>>, <<<<3, 5>>, 3>>, <<<<5, 7>>, 2>> >>]

\* An entity that is not in the target table.
NewEntityCase == [targets |-> <<>>, sources |-> << <<<<0, 1>>, 1>> >>]

\* An entity the batch does not mention.
AbsentCase == [targets |-> <<>>, sources |-> <<>>]

EntityCases == SingleTargetCases \cup {ThreeTargetCase, NewEntityCase, AbsentCase}

\* One call in mode MERGE_ENTITY_UPSERT with delete mode NONE on a batch that holds a
\* case of each of the entities 1..MaxEntities; row ids count the source rows.
InitBatch ==
    \E cases \in [1..MaxEntities -> EntityCases] :
        LET c == MakeCtx("MERGE_ENTITY_UPSERT", "NONE", FALSE, {})
            tagged(e, rows) == [i \in DOMAIN rows |-> <<e, rows[i][1], rows[i][2]>>]
            targets == FlattenSeq([e \in 1..MaxEntities |-> tagged(e, cases[e].targets)])
            sources == FlattenSeq([e \in 1..MaxEntities |-> tagged(e, cases[e].sources)])
        IN  /\ ctx = c
            /\ target_rows = [i \in DOMAIN targets |->
                                 MakeTarget(targets[i][1], NULL, targets[i][2], targets[i][3], c)]
            /\ source_rows = [i \in DOMAIN sources |->
                                 MakeSource(i, sources[i][1], NULL, sources[i][2], sources[i][3], c)]
            /\ CallStart

SpecBatch == InitBatch /\ [][Next]_vars

-----------------------------------------------------------------------------
(* AllenRelation::compute called on its own, on any four bounds *)

InitAllen ==
    /\ allen_in \in (0..MaxT) \X (0..MaxT) \X (0..MaxT) \X (0..MaxT)
    /\ allen_out = <<"none", "none">>
    /\ pc = "allen"
    /\ ctx = MakeCtx("MERGE_ENTITY_UPSERT", "NONE", TRUE, {})
    /\ source_rows = <<>>
    /\ target_rows = <<>>
    /\ run = 1
    /\ matched = <<>>
    /\ groups = <<>>
    /\ gi = 0
    /\ resolved = <<>>
    /\ coalesced = <<>>
    /\ all_plan_rows = <<>>
    /\ table = <<>>
    /\ stmt = 0
    /\ planner_cache = <<>>
    /\ call = <<>>

\* compute(x, y) and compute(y, x) of the intervals x = [allen_in[1], allen_in[2]) and
\* y = [allen_in[3], allen_in[4]).
AllenRelationCompute ==
    /\ pc = "allen"
    /\ allen_out' = <<AllenCompute(allen_in[1], allen_in[2], allen_in[3], allen_in[4]),
                      AllenCompute(allen_in[3], allen_in[4], allen_in[1], allen_in[2])>>
    /\ pc' = "allen_done"
    /\ UNCHANGED <<ctx, source_rows, target_rows, run, matched, groups, gi, resolved,
                   coalesced, all_plan_rows, table, stmt, allen_in, planner_cache, call>>

NextAllen ==
    \/ AllenRelationCompute

SpecAllen == InitAllen /\ [][NextAllen]_vars

-----------------------------------------------------------------------------
(* lib.rs, introspect.rs, reader.rs: the planner context and the rows read with it *)

\* The columns of S in str::cmp order (Vec::sort).
SortColumns(S) ==
    LET in_S(i) == ColumnsSorted[i] \in S
    IN  KeepIdx(ColumnsSorted, in_S)

\* parse_lookup_keys: lookup_keys is None or Some(array of arrays of column names).
parse_lookup_keys(lookup_keys) ==
    IF IsNone(lookup_keys) THEN [all_lookup_cols |-> None, lookup_key_sets |-> <<>>]
    ELSE LET arr == Unwrap(lookup_keys)
             cols == UNION {Range(arr[i]) : i \in DOMAIN arr}
             filled(i) == arr[i] /= <<>>
         IN  IF cols = {} THEN [all_lookup_cols |-> None, lookup_key_sets |-> <<>>]
             ELSE [all_lookup_cols |-> Some(SortColumns(cols)),
                   lookup_key_sets |-> KeepIdx(arr, filled)]

\* build_planner_context: identity_columns and all_lookup_cols are Option<Vec<String>>.
build_planner_context(mode, delete_mode, identity_columns, all_lookup_cols, lookup_key_sets, exclude_if_null_columns) ==
    LET id_cols == IF IsSome(identity_columns) THEN Unwrap(identity_columns) ELSE <<>>
        lk_cols == IF IsSome(all_lookup_cols) THEN Unwrap(all_lookup_cols) ELSE <<>>
        has_identity == id_cols /= <<>>
        has_lookup == lk_cols /= <<>>
    IN  [mode |-> mode,
         delete_mode |-> delete_mode,
         identity_columns |-> id_cols,
         all_lookup_cols |-> lk_cols,
         lookup_key_sets |-> lookup_key_sets,
         strategy |-> IF has_identity /\ has_lookup THEN "Hybrid"
                      ELSE IF has_identity THEN "IdentityKeyOnly"
                      ELSE IF has_lookup THEN "LookupKeyOnly"
                      ELSE "Undefined",
         founding_mode |-> FALSE,
         exclude_if_null_columns |-> exclude_if_null_columns]

\* The columns of the source and target tables besides the bounds and the row id.
TableColumns == {"id", "ssn", "emp", "v"}

\* read_source_ordinals on a source table row `raw` (a value per column and row_id,
\* valid_from, valid_until): build_column_layout puts a column in identity_keys,
\* lookup_keys or data_payload.
read_source_ordinals(raw, c) ==
    LET identity == [k \in TableColumns \cap Range(c.identity_columns) |-> raw[k]]
        lookup == [k \in (TableColumns \cap Range(c.all_lookup_cols)) \ Range(c.identity_columns)
                      |-> raw[k]]
    IN  [row_id |-> raw.row_id,
         causal_id |-> raw.row_id,
         valid_from |-> raw.valid_from,
         valid_until |-> raw.valid_until,
         identity_keys |-> identity,
         lookup_keys |-> lookup,
         data_payload |-> [k \in TableColumns \ (Range(c.identity_columns) \cup Range(c.all_lookup_cols))
                              |-> raw[k]],
         ephemeral_payload |-> EmptyMap,
         is_identifiable |-> c.identity_columns = <<>> \/ \E k \in DOMAIN identity : identity[k] /= NULL,
         lookup_cols_are_null |-> c.all_lookup_cols = <<>> \/ \A k \in DOMAIN lookup : lookup[k] = NULL]

\* read_target_ordinals on a target table row `raw`.
read_target_ordinals(raw, c) ==
    [valid_from |-> raw.valid_from,
     valid_until |-> raw.valid_until,
     identity_keys |-> [k \in TableColumns \cap Range(c.identity_columns) |-> raw[k]],
     lookup_keys |-> [k \in (TableColumns \cap Range(c.all_lookup_cols)) \ Range(c.identity_columns)
                         |-> raw[k]],
     data_payload |-> [k \in TableColumns \ (Range(c.identity_columns) \cup Range(c.all_lookup_cols))
                          |-> raw[k]],
     ephemeral_payload |-> EmptyMap,
     pk_payload |-> EmptyMap]

\* A row of a table: the entity columns, the payload column and the bounds.
TableRow(row_id, id, ssn, emp, iv, v) ==
    [row_id |-> row_id, id |-> id, ssn |-> ssn, emp |-> emp, v |-> v,
     valid_from |-> iv[1], valid_until |-> iv[2]]

-----------------------------------------------------------------------------
(* A call with the two lookup key sets [[ssn], [emp]] *)

MaxKeySources == 3   \* source rows of a call of SpecKeys

\* The context of a call with identity column "id" (strategy Hybrid) or without identity
\* columns (strategy LookupKeyOnly).
KeysCtx(with_identity) ==
    LET parsed == parse_lookup_keys(Some(<< <<"ssn">>, <<"emp">> >>))
    IN  build_planner_context("MERGE_ENTITY_UPSERT", "NONE",
                              IF with_identity THEN Some(<<"id">>) ELSE None,
                              parsed.all_lookup_cols, parsed.lookup_key_sets, {})

\* The target table: entity 1 (ssn 1, emp 1) and entity 2 (ssn 2, emp 2).
KeysTargetTable ==
    <<TableRow(0, 1, 1, 1, <<0, ModesMaxT>>, 1), TableRow(0, 2, 2, 2, <<0, ModesMaxT>>, 1)>>

\* <<ssn, emp>> of a source row (its id is null): fragments of a new entity under ssn 3,
\* emp 3 or both, a row that matches entity 1 by ssn and entity 2 by emp, a row of
\* entity 1, a row without any key.
KeysSourceKeys == {<<3, NULL>>, <<NULL, 3>>, <<3, 3>>, <<1, 2>>, <<1, NULL>>, <<NULL, NULL>>}

\* <<keys, interval, value>> of a source row; only the rows of entity 1 vary in value.
KeysSourceChoices ==
    {ch \in KeysSourceKeys \X ModesIntervals \X (1..MaxVal) : ch[3] = 1 \/ ch[1] = <<1, NULL>>}

InitKeys ==
    \E with_identity \in BOOLEAN, n \in 0..MaxKeySources :
      \E ch \in [1..n -> KeysSourceChoices] :
        LET c == KeysCtx(with_identity)
        IN  /\ ctx = c
            /\ target_rows = [i \in DOMAIN KeysTargetTable |->
                                 read_target_ordinals(KeysTargetTable[i], c)]
            /\ source_rows = [i \in 1..n |->
                                 read_source_ordinals(
                                     TableRow(i, NULL, ch[i][1][1], ch[i][1][2], ch[i][2], ch[i][3]),
                                     c)]
            /\ CallStart

NextKeys ==
    \/ SweepLinePlan

SpecKeys == InitKeys /\ [][NextKeys]_vars

-----------------------------------------------------------------------------
(* A call whose source rows share partitions of detect_eclipsed *)

EclipseMaxT == 3     \* validity bounds of SpecEclipse range over 0..EclipseMaxT

EclipseIntervals == {iv \in (0..EclipseMaxT) \X (0..EclipseMaxT) : iv[1] < iv[2]}

\* <<id, ssn, emp>> of a source row: a row that matches entity 1 by ssn and entity 2 by
\* emp (ambiguous), a row with the same lookup values that names entity 1 by its id, and
\* two fragments of a new entity, under ssn 3 and under ssn 3 and emp 3.
EclipseSourceKeys == {<<NULL, 1, 2>>, <<1, 1, 2>>, <<NULL, 3, NULL>>, <<NULL, 3, 3>>}

InitEclipse ==
    \E n \in 0..MaxKeySources :
      \E ch \in [1..n -> EclipseSourceKeys \X EclipseIntervals] :
        LET c == KeysCtx(TRUE)
        IN  /\ ctx = c
            /\ target_rows = [i \in DOMAIN KeysTargetTable |->
                                 read_target_ordinals(KeysTargetTable[i], c)]
            /\ source_rows = [i \in 1..n |->
                                 read_source_ordinals(
                                     TableRow(i, ch[i][1][1], ch[i][1][2], ch[i][1][3],
                                              ch[i][2], 1),
                                     c)]
            /\ CallStart

NextEclipse ==
    \/ SweepLinePlan

SpecEclipse == InitEclipse /\ [][NextEclipse]_vars

-----------------------------------------------------------------------------
(* lib.rs: the calls of temporal_merge_plan_native of one session, with PLANNER_CACHE *)

MaxCalls == 2        \* calls of a session of SpecSession

\* compute_cache_key: the hash of its arguments, taken as injective, as the tuple of
\* the arguments that vary (era_name, ephemeral_columns, founding_id_column,
\* row_id_column and log_trace are the same in every call).
compute_cache_key(target_table, mode, identity_columns, all_lookup_cols, delete_mode) ==
    <<target_table, mode, identity_columns, all_lookup_cols, delete_mode>>

\* The hash of the column names and types of the source table: one source table layout.
SourceColsHash == 1

\* The arguments of a call: identity_columns and lookup_keys may be NULL.
SessionCalls ==
    [target_table : {1},
     mode : {"MERGE_ENTITY_UPSERT"},
     delete_mode : {"NONE"},
     identity_columns : {None, Some(<<"id">>)},
     lookup_keys : {None, Some(<< <<"ssn">>, <<"emp">> >>), Some(<< <<"ssn", "emp">> >>)}]

\* <<ssn, emp>> of the source row of a call.
SessionSourceKeys == {<<1, 1>>, <<1, 2>>, <<3, 3>>}

\* The session before its first call.
InitSession ==
    /\ pc = "idle"
    /\ run = 0
    /\ planner_cache = <<>>
    /\ call = <<>>
    /\ ctx = <<>>
    /\ source_rows = <<>>
    /\ target_rows = <<>>
    /\ matched = <<>>
    /\ groups = <<>>
    /\ gi = 0
    /\ resolved = <<>>
    /\ coalesced = <<>>
    /\ all_plan_rows = <<>>
    /\ table = <<>>
    /\ stmt = 0
    /\ allen_in = <<0, 0, 0, 0>>
    /\ allen_out = <<"none", "none">>

\* temporal_merge_plan_native up to its call of sweep_line_plan: the cached state of
\* the configuration is taken or built, and the rows are read with its context.
TemporalMergePlanNative ==
    /\ pc \in {"idle", "planned"}
    /\ run < MaxCalls
    /\ \E args \in SessionCalls, keys \in SessionSourceKeys :
         LET parsed == parse_lookup_keys(args.lookup_keys)
             cache_key == compute_cache_key(args.target_table, args.mode, args.identity_columns,
                                            parsed.all_lookup_cols, args.delete_mode)
             cache_hit == /\ cache_key \in DOMAIN planner_cache
                          /\ planner_cache[cache_key].source_cols_hash = SourceColsHash
             new_state == [cache_key |-> cache_key,
                           ctx |-> build_planner_context(args.mode, args.delete_mode,
                                                         args.identity_columns,
                                                         parsed.all_lookup_cols,
                                                         parsed.lookup_key_sets, {}),
                           source_cols_hash |-> SourceColsHash]
             state == IF cache_hit THEN planner_cache[cache_key] ELSE new_state
         IN  /\ call' = args
             /\ planner_cache' =
                    IF cache_hit THEN planner_cache
                    ELSE [k \in (DOMAIN planner_cache) \cup {cache_key} |->
                             IF k = cache_key THEN new_state ELSE planner_cache[k]]
             /\ ctx' = state.ctx
             /\ source_rows' = <<read_source_ordinals(
                                    TableRow(1, NULL, keys[1], keys[2], <<0, 1>>, MaxVal),
                                    state.ctx)>>
             /\ target_rows' = [i \in DOMAIN KeysTargetTable |->
                                   read_target_ordinals(KeysTargetTable[i], state.ctx)]
    /\ pc' = "start"
    /\ run' = run + 1
    /\ matched' = <<>>
    /\ groups' = <<>>
    /\ gi' = 0
    /\ resolved' = <<>>
    /\ coalesced' = <<>>
    /\ all_plan_rows' = <<>>
    /\ UNCHANGED <<table, stmt, allen_in, allen_out>>

\* temporal_merge_native_cache_reset, between two calls: the session's cache is cleared.
TemporalMergeNativeCacheReset ==
    /\ pc \in {"idle", "planned"}
    /\ planner_cache /= <<>>
    /\ planner_cache' = <<>>
    /\ UNCHANGED <<source_rows, target_rows, ctx, pc, run, matched, groups, gi, resolved,
                   coalesced, all_plan_rows, table, stmt, allen_in, allen_out, call>>

NextSession ==
    \/ TemporalMergePlanNative
    \/ TemporalMergeNativeCacheReset
    \/ SweepLinePlan

SpecSession == InitSession /\ [][NextSession]_vars

\* The context build_planner_context builds from the arguments of a call.
FreshContext(args) ==
    LET parsed == parse_lookup_keys(args.lookup_keys)
    IN  build_planner_context(args.mode, args.delete_mode, args.identity_columns,
                              parsed.all_lookup_cols, parsed.lookup_key_sets, {})

-----------------------------------------------------------------------------
(* The merged timeline: C1, C2 *)

\* No two rows of the table are rows of one entity with overlapping validity.
NoOverlap(tbl) == \A k \in DOMAIN tbl, l \in DOMAIN tbl : ~Overlapping(tbl, k, l, ctx)

\* C1: the target rows of every entity being pairwise non-overlapping, executing the DML
\* plan rows statement group by statement group in ascending statement_seq never leaves
\* two rows of an entity with overlapping validity after any statement group.
C1_NoTransientOverlap ==
    run = 1 => NoOverlap(table)

\* The entities of a call, by the value of "id" (NULL: no identity).
EntityIds == 0..MaxEntities

\* The time points of a call: t stands for [t, t + 1).
TimePoints == 0..(MaxT - 1)

\* The data payload entity e has at time point t in the rows `rows`.
PayloadAt(rows, e, t) ==
    LET cover == {k \in DOMAIN rows : /\ rows[k].identity_keys["id"] = e
                                      /\ rows[k].valid_from <= t
                                      /\ t < rows[k].valid_until}
    IN  IF cover = {} THEN None ELSE Some(rows[CHOOSE k \in cover : TRUE].data_payload)

\* The row ids of the active source rows: no error, not eclipsed.
ActiveRowIds ==
    {matched[k].source.row_id :
        k \in {j \in DOMAIN matched : IsNone(matched[j].early_feedback) /\ ~matched[j].is_eclipsed}}

\* The active source rows of entity e that cover time point t.
ActiveCovering(e, t) ==
    {k \in DOMAIN source_rows : /\ source_rows[k].row_id \in ActiveRowIds
                                /\ source_rows[k].identity_keys["id"] = e
                                /\ source_rows[k].valid_from <= t
                                /\ t < source_rows[k].valid_until}

\* `base` overlaid with the payloads of the source rows S in ascending row-id order.
RECURSIVE OverlaidWith(_, _)
OverlaidWith(base, S) ==
    IF S = {} THEN base
    ELSE LET first == CHOOSE k \in S : \A l \in S : source_rows[k].row_id <= source_rows[l].row_id
         IN  OverlaidWith(MapOverlay(base, source_rows[first].data_payload), S \ {first})

\* The payload the source batch implies for entity e at time point t.
ImpliedAt(e, t) ==
    LET prior == PayloadAt(target_rows, e, t)
    IN  IF ActiveCovering(e, t) = {} THEN prior
        ELSE Some(OverlaidWith(IF IsSome(prior) THEN Unwrap(prior) ELSE EmptyMap,
                               ActiveCovering(e, t)))

-----------------------------------------------------------------------------
(* The second plan and the coverage of the source rows: C3, C4 *)

\* The positions of the DML rows of the plan.
DmlRows == {i \in DOMAIN all_plan_rows : is_dml(all_plan_rows[i].operation)}

\* C3: the plan of a first run being applied to the target and the planner run again
\* with the same source batch on the resulting target rows, the second plan holds no
\* DML row (no INSERT, UPDATE or DELETE).
C3_NoOpIdempotence ==
    (run = 2 /\ pc = "planned") => DmlRows = {}

\* The row ids in the row-id lists of the plan rows whose operation is one of ops.
RowIdsOf(ops) ==
    UNION {Range(all_plan_rows[i].row_ids) :
              i \in {j \in DOMAIN all_plan_rows : all_plan_rows[j].operation \in ops}}

\* The source rows that are not eclipsed and not filtered by the merge mode.
CoveredRowIds ==
    {matched[k].source.row_id : k \in {j \in DOMAIN matched : ~matched[j].is_eclipsed}}
        \ RowIdsOf({"SKIP_FILTERED", "SKIP_NO_TARGET"})

\* C4: in every merge mode, the row id of every source row that is not eclipsed and not
\* filtered by the merge mode is in exactly one of: the row-id list of a DML plan row,
\* a SKIP or ERROR row.
C4_Coverage ==
    (run = 1 /\ pc = "planned") =>
        \A r \in CoveredRowIds :
            (r \in RowIdsOf({"INSERT", "UPDATE", "DELETE"}))
                /= (r \in RowIdsOf({"SKIP_IDENTICAL", "SKIP_ECLIPSED", "ERROR"}))

-----------------------------------------------------------------------------
(* Coalescing: C5 *)

\* Resolved segment i + 1 continues resolved segment i: contiguous, same grouping key,
\* equal content hash.
Continues(R, i) ==
    /\ R[i].grouping_key = R[i + 1].grouping_key
    /\ R[i].valid_until = R[i + 1].valid_from
    /\ R[i].data_hash = R[i + 1].data_hash

\* The maximal runs <<first, last>> of the resolved segments R.
MaximalRuns(R) ==
    {run_ \in (DOMAIN R) \X (DOMAIN R) :
        /\ run_[1] <= run_[2]
        /\ \A i \in run_[1]..(run_[2] - 1) : Continues(R, i)
        /\ run_[1] = 1 \/ ~Continues(R, run_[1] - 1)
        /\ run_[2] = Len(R) \/ ~Continues(R, run_[2])}

\* C5: for every maximal run of contiguous resolved segments of one grouping key with
\* equal content hash, coalesce_segments emits exactly one output interval
\* [first.from, last.until), it emits nothing else, and no two output intervals of one
\* grouping key are both touching and equal-content.
C5_HalfOpenCoalescing ==
    \A g \in DOMAIN coalesced :
        LET R == resolved[g]
            C == coalesced[g]
        IN  /\ \A run_ \in MaximalRuns(R) :
                  Cardinality({k \in DOMAIN C :
                                  /\ C[k].valid_from = R[run_[1]].valid_from
                                  /\ C[k].valid_until = R[run_[2]].valid_until
                                  /\ C[k].grouping_key = R[run_[1]].grouping_key
                                  /\ C[k].data_hash = R[run_[1]].data_hash}) = 1
            /\ Len(C) = Cardinality(MaximalRuns(R))
            /\ \A k \in DOMAIN C, l \in DOMAIN C :
                  ~(/\ C[k].grouping_key = C[l].grouping_key
                    /\ C[k].valid_until = C[l].valid_from
                    /\ C[k].data_hash = C[l].data_hash)

\* A group whose resolved segments hold a run of two or more segments and a segment
\* that touches the run with another content has been coalesced.
C5_Witness ==
    \E g \in DOMAIN coalesced :
        /\ 2 <= Len(coalesced[g])
        /\ Len(coalesced[g]) < Len(resolved[g])
        /\ \E k \in DOMAIN coalesced[g] :
              /\ k < Len(coalesced[g])
              /\ coalesced[g][k].valid_until = coalesced[g][k + 1].valid_from

-----------------------------------------------------------------------------
(* Allen relations: C6, C7 *)

\* The inverse of each of the 13 relations.
InverseRelation(r) ==
    CASE r = "precedes" -> "preceded_by"
      [] r = "preceded_by" -> "precedes"
      [] r = "meets" -> "met_by"
      [] r = "met_by" -> "meets"
      [] r = "overlaps" -> "overlapped_by"
      [] r = "overlapped_by" -> "overlaps"
      [] r = "starts" -> "started_by"
      [] r = "started_by" -> "starts"
      [] r = "during" -> "contains"
      [] r = "contains" -> "during"
      [] r = "finishes" -> "finished_by"
      [] r = "finished_by" -> "finishes"
      [] r = "equals" -> "equals"
      [] OTHER -> "undefined"

AllenNonEmpty == allen_in[1] < allen_in[2] /\ allen_in[3] < allen_in[4]

\* C6 as the claim states it: for all bounds a, b, c, d, compute(a,b,c,d) and
\* compute(c,d,a,b) are inverse relations of each other.
C6_AllBounds ==
    pc = "allen_done" => allen_out[2] = InverseRelation(allen_out[1])

\* C6, amended: for all bounds a < b and c < d (two non-empty intervals),
\* compute(a,b,c,d) and compute(c,d,a,b) are inverse relations of each other.
C6_AllenSymmetry ==
    (pc = "allen_done" /\ AllenNonEmpty) => allen_out[2] = InverseRelation(allen_out[1])

\* Two non-empty intervals that overlap have been compared both ways.
C6_Witness ==
    /\ pc = "allen_done"
    /\ AllenNonEmpty
    /\ allen_out = <<"overlaps", "overlapped_by">>

\* The relation r holds between the non-empty sets of time points X and Y, read off the
\* point sets alone.
AllenHolds(r, X, Y) ==
    LET min(S) == CHOOSE t \in S : \A u \in S : t <= u
        max(S) == CHOOSE t \in S : \A u \in S : u <= t
        before(A, B) == max(A) + 1 < min(B)
        touch(A, B) == max(A) + 1 = min(B)
        lap(A, B) == A \cap B /= {} /\ min(A) < min(B) /\ max(A) < max(B)
        start(A, B) == A \subseteq B /\ A /= B /\ min(A) = min(B)
        inside(A, B) == A \subseteq B /\ min(A) > min(B) /\ max(A) < max(B)
        finish(A, B) == A \subseteq B /\ A /= B /\ max(A) = max(B)
    IN  CASE r = "precedes" -> before(X, Y)
          [] r = "preceded_by" -> before(Y, X)
          [] r = "meets" -> touch(X, Y)
          [] r = "met_by" -> touch(Y, X)
          [] r = "overlaps" -> lap(X, Y)
          [] r = "overlapped_by" -> lap(Y, X)
          [] r = "starts" -> start(X, Y)
          [] r = "started_by" -> start(Y, X)
          [] r = "during" -> inside(X, Y)
          [] r = "contains" -> inside(Y, X)
          [] r = "finishes" -> finish(X, Y)
          [] r = "finished_by" -> finish(Y, X)
          [] r = "equals" -> X = Y
          [] OTHER -> FALSE

\* C7: for every pair of non-empty half-open intervals, AllenRelation::compute returns
\* a relation, never None, and it is the Allen relation that holds between the two
\* intervals.
C7_AllenCorrect ==
    (pc = "allen_done" /\ AllenNonEmpty) =>
        /\ allen_out[1] /= "none"
        /\ AllenHolds(allen_out[1], allen_in[1]..(allen_in[2] - 1),
                      allen_in[3]..(allen_in[4] - 1))

\* A non-empty interval strictly inside another has been classified.
C7_Witness ==
    /\ pc = "allen_done"
    /\ AllenNonEmpty
    /\ allen_in[3] < allen_in[1]
    /\ allen_in[2] < allen_in[4]
    /\ allen_out[1] = "during"

-----------------------------------------------------------------------------
(* Statement groups: C8, C9, C10 *)

\* C8: every UPDATE row with effect MOVE has a statement group of its own: no other row
\* of the plan, of the same or another entity, DML or not, has its statement_seq.
C8_MoveAlone ==
    pc = "planned" =>
        \A i \in DOMAIN all_plan_rows, j \in DOMAIN all_plan_rows :
            (i /= j /\ all_plan_rows[i].update_effect = Some("MOVE")) =>
                all_plan_rows[i].statement_seq /= all_plan_rows[j].statement_seq

\* C9: statement groups are numbered in category order across the plan: DELETE before
\* UPDATE NONE/SHRINK before UPDATE MOVE before UPDATE GROW before INSERT.
C9_CategoryOrder ==
    pc = "planned" =>
        \A i \in DmlRows, j \in DmlRows :
            op_category(all_plan_rows[i]) < op_category(all_plan_rows[j]) =>
                all_plan_rows[i].statement_seq < all_plan_rows[j].statement_seq

\* C10: every SKIP or ERROR row of the plan has the highest statement_seq of the DML
\* rows plus 1.
C10_NonDmlLast ==
    pc = "planned" =>
        \A i \in DOMAIN all_plan_rows \ DmlRows :
            /\ \A j \in DmlRows :
                  all_plan_rows[j].statement_seq < all_plan_rows[i].statement_seq
            /\ \/ DmlRows = {}
               \/ \E j \in DmlRows :
                     all_plan_rows[i].statement_seq = all_plan_rows[j].statement_seq + 1

-----------------------------------------------------------------------------
(* A source row that is a prefix of the target row: C11 *)

\* The positions of the plan rows whose operation is op.
RowsWithOperation(op) == {i \in DOMAIN all_plan_rows : all_plan_rows[i].operation = op}

\* The batch holds one source row, of the entity of the single target row, whose interval
\* is a proper prefix of the target row's and whose payload is the target row's.
PrefixBatch ==
    /\ Len(source_rows) = 1
    /\ Len(target_rows) = 1
    /\ ~matched[1].is_new_entity
    /\ source_rows[1].valid_from = target_rows[1].valid_from
    /\ source_rows[1].valid_until < target_rows[1].valid_until
    /\ source_rows[1].data_payload = target_rows[1].data_payload
    /\ source_rows[1].ephemeral_payload = target_rows[1].ephemeral_payload

\* C11: the batch holding one source row whose interval is a proper prefix of the single
\* target row's interval and whose payload is the target's, the plan holds exactly one
\* UPDATE row; its effect is SHRINK, its old bounds are the target interval and its new
\* bounds the source interval.
C11_PrefixShrink ==
    (run = 1 /\ pc = "planned" /\ PrefixBatch) =>
        /\ Cardinality(RowsWithOperation("UPDATE")) = 1
        /\ \A i \in RowsWithOperation("UPDATE") :
              /\ all_plan_rows[i].update_effect = Some("SHRINK")
              /\ all_plan_rows[i].old_valid_from = Some(target_rows[1].valid_from)
              /\ all_plan_rows[i].old_valid_until = Some(target_rows[1].valid_until)
              /\ all_plan_rows[i].new_valid_from = Some(source_rows[1].valid_from)
              /\ all_plan_rows[i].new_valid_until = Some(source_rows[1].valid_until)

-----------------------------------------------------------------------------
(* Fragments of a new entity: C12 *)

\* Row i of the batch is a row of a new entity, without error.
NewEntityRow(i) == matched[i].is_new_entity /\ IsNone(matched[i].early_feedback)

\* Row i of the batch is a new-entity row that carries a non-null ssn and no emp.
OnlySsn(i) ==
    /\ NewEntityRow(i)
    /\ source_rows[i].lookup_keys["ssn"] /= NULL
    /\ source_rows[i].lookup_keys["emp"] = NULL

\* Row j of the batch is a new-entity row that carries a non-null emp and no ssn.
OnlyEmp(j) ==
    /\ NewEntityRow(j)
    /\ source_rows[j].lookup_keys["emp"] /= NULL
    /\ source_rows[j].lookup_keys["ssn"] = NULL

\* Row k of the batch is a new-entity row that carries the ssn of row i and the emp of
\* row j.
CarriesBoth(k, i, j) ==
    /\ NewEntityRow(k)
    /\ source_rows[k].lookup_keys["ssn"] = source_rows[i].lookup_keys["ssn"]
    /\ source_rows[k].lookup_keys["emp"] = source_rows[j].lookup_keys["emp"]

\* The positions of the INSERT rows of the plan under grouping key `key`.
InsertsOf(key) ==
    {p \in RowsWithOperation("INSERT") : all_plan_rows[p].grouping_key = key}

\* The rows S of the batch have one grouping key that carries both lookup keys, they are
\* in one entity group, and the plan holds for that group INSERT rows only, one per
\* non-overlapping interval: no two of them overlap and together they cover the time
\* points the rows of the group that are not eclipsed cover.
OneCanonicalGroup(S) ==
    \E g \in DOMAIN groups :
        LET key == groups[g].grouping_key
            members == {groups[g].source_rows[n].source.row_id : n \in DOMAIN groups[g].source_rows}
            covering(t) == {n \in DOMAIN groups[g].source_rows :
                               /\ ~groups[g].source_rows[n].is_eclipsed
                               /\ groups[g].source_rows[n].source.valid_from <= t
                               /\ t < groups[g].source_rows[n].source.valid_until}
            inserting(t) == {p \in InsertsOf(key) :
                                /\ Unwrap(all_plan_rows[p].new_valid_from) <= t
                                /\ t < Unwrap(all_plan_rows[p].new_valid_until)}
        IN  /\ Len(key) = 3 /\ key[1] = K_NEW /\ key[2] /= NULL /\ key[3] /= NULL
            /\ \A i \in S : matched[i].grouping_key = key /\ source_rows[i].row_id \in members
            /\ \A h \in DOMAIN groups : groups[h].grouping_key = key => h = g
            /\ \A p \in DmlRows : all_plan_rows[p].grouping_key = key => p \in InsertsOf(key)
            /\ \A t \in 0..(ModesMaxT - 1) :
                  Cardinality(inserting(t)) = IF covering(t) = {} THEN 0 ELSE 1

\* C12 as the claim states it: with the lookup key sets [[ssn], [emp]], two new-entity
\* rows of a batch, one carrying only a non-null ssn and the other only a non-null emp,
\* get one grouping key carrying both keys, land in one entity group and produce a
\* single INSERT per non-overlapping interval.
C12_TwoFragments ==
    pc = "planned" =>
        \A i \in DOMAIN matched, j \in DOMAIN matched :
            (OnlySsn(i) /\ OnlyEmp(j)) => OneCanonicalGroup({i, j})

\* C12, amended: with the lookup key sets [[ssn], [emp]], two new-entity rows of a
\* batch, one carrying only a non-null ssn and the other only a non-null emp, that the
\* batch links by a third new-entity row carrying that ssn and that emp, get, with the
\* third row, one grouping key carrying both keys, land in one entity group and produce
\* a single INSERT per non-overlapping interval.
C12_CanonicalGroup ==
    pc = "planned" =>
        \A i \in DOMAIN matched, j \in DOMAIN matched, k \in DOMAIN matched :
            (OnlySsn(i) /\ OnlyEmp(j) /\ CarriesBoth(k, i, j)) => OneCanonicalGroup({i, j, k})

\* The plan of a batch of three fragments is there: the row that carries both keys comes
\* last, and the two partial rows overlap in time.
C12_Witness ==
    /\ pc = "planned"
    /\ Len(matched) = 3
    /\ OnlySsn(1) /\ OnlyEmp(2) /\ CarriesBoth(3, 1, 2)
    /\ source_rows[1].valid_from < source_rows[2].valid_until
    /\ source_rows[2].valid_from < source_rows[1].valid_until
    /\ InsertsOf(matched[1].grouping_key) /= {}

-----------------------------------------------------------------------------
(* Rows in error: C13, C14, C15 *)

\* Source row i has, for key set ks, a non-null key that target row a has too.
MatchesThrough(i, a, ks) ==
    /\ build_key_for_cols(source_rows[i].lookup_keys, ctx.lookup_key_sets[ks]) /= <<>>
    /\ build_key_for_cols(source_rows[i].lookup_keys, ctx.lookup_key_sets[ks])
         = build_key_for_cols(target_rows[a].lookup_keys, ctx.lookup_key_sets[ks])

\* Source row i has the non-null identity of a target row.
IdentityMatch(i) ==
    \E a \in DOMAIN target_rows :
        /\ json_map_to_key(source_rows[i].identity_keys) /= {}
        /\ json_map_to_key(source_rows[i].identity_keys)
             = json_map_to_key(target_rows[a].identity_keys)

\* Target rows a and b are rows of two entities: they differ in identity or lookup keys.
TwoEntities(a, b) ==
    \/ target_rows[a].identity_keys /= target_rows[b].identity_keys
    \/ target_rows[a].lookup_keys /= target_rows[b].lookup_keys

\* The pairs <<a, b>> of target rows of two entities that source row i, without identity
\* match, matches through two key sets.
Conflicts(i) ==
    {ab \in (DOMAIN target_rows) \X (DOMAIN target_rows) :
        /\ ~IdentityMatch(i)
        /\ TwoEntities(ab[1], ab[2])
        /\ \E ks1 \in DOMAIN ctx.lookup_key_sets, ks2 \in DOMAIN ctx.lookup_key_sets :
              ks1 /= ks2 /\ MatchesThrough(i, ab[1], ks1) /\ MatchesThrough(i, ab[2], ks2)}

\* The positions of the ERROR rows of the plan for source row i.
ErrorRowsOf(i) ==
    {p \in RowsWithOperation("ERROR") : all_plan_rows[p].row_ids = <<source_rows[i].row_id>>}

\* C13: a source row with no identity match whose lookup values match two different
\* target entities through two independent key sets yields exactly one ERROR plan row,
\* whose message names both entities, and no DML plan row holds its row id; in every
\* identity strategy (Hybrid and LookupKeyOnly).
C13_AmbiguousError ==
    pc = "planned" =>
        \A i \in DOMAIN source_rows :
            Conflicts(i) /= {} =>
                /\ Cardinality(ErrorRowsOf(i)) = 1
                /\ \A p \in ErrorRowsOf(i) :
                      LET fb == Unwrap(all_plan_rows[p].feedback)
                      IN  /\ DOMAIN fb = {"error"}
                          /\ fb.error.text = "ambiguous"
                          /\ \A ab \in Conflicts(i) :
                                {target_rows[ab[1]].identity_keys, target_rows[ab[2]].identity_keys}
                                    \subseteq Range(fb.error.ids)
                /\ \A p \in DmlRows : source_rows[i].row_id \notin Range(all_plan_rows[p].row_ids)

\* The same with identity columns only (strategy Hybrid).
C13_AmbiguousErrorHybrid ==
    ctx.strategy = "Hybrid" => C13_AmbiguousError

\* Source row i has no non-null identity value and no non-null lookup value, and the
\* context asks for one (no founding id, strategy other than IdentityKeyOnly).
Unidentifiable(i) ==
    /\ \A k \in DOMAIN source_rows[i].identity_keys : source_rows[i].identity_keys[k] = NULL
    /\ \A k \in DOMAIN source_rows[i].lookup_keys : source_rows[i].lookup_keys[k] = NULL
    /\ ~ctx.founding_mode
    /\ ctx.strategy /= "IdentityKeyOnly"

\* Source row i is a bad row: ambiguous or unidentifiable.
BadRow(i) == Conflicts(i) /= {} \/ Unidentifiable(i)

\* The DML rows of a plan, each as its entity, operation, old and new bounds, data and
\* row ids.
DmlView(plan) ==
    {<<plan[p].identity_keys, plan[p].operation,
       plan[p].old_valid_from, plan[p].old_valid_until,
       plan[p].new_valid_from, plan[p].new_valid_until,
       plan[p].data, plan[p].row_ids>> :
        p \in {q \in DOMAIN plan : is_dml(plan[q].operation)}}

\* The batch without its row i.
BatchWithout(i) ==
    LET other(k) == k /= i
    IN  KeepIdx(source_rows, other)

\* C14: a bad row (ambiguous or unidentifiable) in a batch has exactly one ERROR plan
\* row, without old or new validity bounds, and the DML rows of the plan (operation, old
\* and new bounds, data, row ids) are those of the plan of the batch without that row.
C14_BadRowFrame ==
    pc = "planned" =>
        \A i \in DOMAIN source_rows :
            BadRow(i) =>
                /\ Cardinality(ErrorRowsOf(i)) = 1
                /\ \A p \in ErrorRowsOf(i) :
                      /\ IsNone(all_plan_rows[p].old_valid_from)
                      /\ IsNone(all_plan_rows[p].old_valid_until)
                      /\ IsNone(all_plan_rows[p].new_valid_from)
                      /\ IsNone(all_plan_rows[p].new_valid_until)
                /\ DmlView(all_plan_rows)
                     = DmlView(sweep_line_plan(BatchWithout(i), target_rows, ctx))

\* The same with identity columns only (strategy Hybrid).
C14_BadRowFrameHybrid ==
    ctx.strategy = "Hybrid" => C14_BadRowFrame

\* C15: feedback has two shapes: every ERROR row of the plan carries a feedback object
\* {"error": message}, and every SKIP_NO_TARGET, SKIP_FILTERED or SKIP_ECLIPSED row that
\* carries feedback carries an object without an "error" key.
C15_FeedbackShapes ==
    pc = "planned" =>
        \A p \in DOMAIN all_plan_rows :
            /\ all_plan_rows[p].operation = "ERROR" =>
                  /\ IsSome(all_plan_rows[p].feedback)
                  /\ DOMAIN Unwrap(all_plan_rows[p].feedback) = {"error"}
            /\ (/\ all_plan_rows[p].operation \in {"SKIP_NO_TARGET", "SKIP_FILTERED", "SKIP_ECLIPSED"}
                /\ IsSome(all_plan_rows[p].feedback)) =>
                  "error" \notin DOMAIN Unwrap(all_plan_rows[p].feedback)

-----------------------------------------------------------------------------
(* The session: C16, C17 *)

\* C16: a call configured with neither identity columns nor lookup columns is rejected
\* before any row processing: sweep_line_plan is never entered with a context whose
\* strategy is Undefined.
C16_UndefinedRejected ==
    (call /= <<>> /\ pc = "start") => ctx.strategy /= "Undefined"

\* C17: in a session, the context a call plans with is the context built from that
\* call's own arguments, its lookup key sets included: no cached state of a call with
\* another configuration is used.
C17_CacheMatchesCall ==
    (call /= <<>> /\ pc = "start") => ctx = FreshContext(call)

-----------------------------------------------------------------------------
(* Delete-mode gating: C18 *)

\* Source row k of the batch is a row of the entity of target row i.
OfTargetEntity(k, i) ==
    /\ ~matched[k].is_new_entity
    /\ matched[k].discovered_identity = Some(target_rows[i].identity_keys)

\* No source row of its entity overlaps target row i.
Uncovered(i) ==
    \A k \in DOMAIN source_rows :
        OfTargetEntity(k, i) =>
            \/ source_rows[k].valid_until <= target_rows[i].valid_from
            \/ target_rows[i].valid_until <= source_rows[k].valid_from

\* The entity of target row i has an active source row: without early feedback, not eclipsed.
EntityActive(i) ==
    \E k \in DOMAIN source_rows :
        /\ OfTargetEntity(k, i)
        /\ IsNone(matched[k].early_feedback)
        /\ ~matched[k].is_eclipsed

\* A source row of its entity starts where target row i ends, or ends where it starts.
Touched(i) ==
    \E k \in DOMAIN source_rows :
        /\ OfTargetEntity(k, i)
        /\ \/ source_rows[k].valid_until = target_rows[i].valid_from
           \/ target_rows[i].valid_until = source_rows[k].valid_from

\* The delete-mode flag that applies to target row i is set.
ApplicableFlag(i) ==
    IF EntityActive(i)
    THEN ctx.delete_mode \in {"DELETE_MISSING_TIMELINE", "DELETE_MISSING_TIMELINE_AND_ENTITIES"}
    ELSE ctx.delete_mode \in {"DELETE_MISSING_ENTITIES", "DELETE_MISSING_TIMELINE_AND_ENTITIES"}

\* The DML rows of the plan whose old bounds are those of target row i.
DmlRowsOfTarget(i) ==
    {p \in DOMAIN all_plan_rows :
        /\ is_dml(all_plan_rows[p].operation)
        /\ all_plan_rows[p].identity_keys = Some(target_rows[i].identity_keys)
        /\ all_plan_rows[p].old_valid_from = Some(target_rows[i].valid_from)
        /\ all_plan_rows[p].old_valid_until = Some(target_rows[i].valid_until)}

\* With delete mode NONE and a merge mode other than DELETE_FOR_PORTION_OF the plan holds
\* no DELETE row.
NoDeleteWithoutFlag ==
    (ctx.delete_mode = "NONE" /\ ctx.mode /= "DELETE_FOR_PORTION_OF")
        => RowsWithOperation("DELETE") = {}

\* C18 as stated: a target row no source row covers has a DELETE row only if the
\* applicable delete-mode flag is set (the timeline flag when its entity has active source
\* rows, the entity flag when it has none), and no DML row otherwise; with delete mode NONE
\* and a merge mode other than DELETE_FOR_PORTION_OF the plan holds no DELETE row.
C18_NoDmlRow ==
    (run = 1 /\ pc = "planned") =>
        /\ \A i \in DOMAIN target_rows :
              (Uncovered(i) /\ ~ApplicableFlag(i)) => DmlRowsOfTarget(i) = {}
        /\ NoDeleteWithoutFlag

\* C18, the merge of coalesce_segments allowed for: a target row no source row covers has
\* a DELETE row only if the applicable delete-mode flag is set; otherwise its only DML
\* row, if any, is one UPDATE with effect GROW that extends it over a source row of its
\* entity adjacent to it, and it has no DML row when no source row of its entity is
\* adjacent to it; with delete mode NONE and a merge mode other than
\* DELETE_FOR_PORTION_OF the plan holds no DELETE row.
C18_DeleteGated ==
    (run = 1 /\ pc = "planned") =>
        /\ \A i \in DOMAIN target_rows :
              (Uncovered(i) /\ ~ApplicableFlag(i)) =>
                  /\ Cardinality(DmlRowsOfTarget(i)) <= 1
                  /\ ~Touched(i) => DmlRowsOfTarget(i) = {}
                  /\ \A p \in DmlRowsOfTarget(i) :
                        /\ all_plan_rows[p].operation = "UPDATE"
                        /\ all_plan_rows[p].update_effect = Some("GROW")
                        /\ Unwrap(all_plan_rows[p].new_valid_from) <= target_rows[i].valid_from
                        /\ target_rows[i].valid_until <= Unwrap(all_plan_rows[p].new_valid_until)
        /\ NoDeleteWithoutFlag

\* A target row no source row covers, of an entity with an active source row, is left
\* without DML row by a plan that holds DML rows, the only flag set being the entity flag.
C18_Witness ==
    /\ run = 1 /\ pc = "planned"
    /\ \E i \in DOMAIN target_rows :
          /\ Uncovered(i) /\ EntityActive(i)
          /\ ctx.delete_mode = "DELETE_MISSING_ENTITIES"
          /\ DmlRowsOfTarget(i) = {}
          /\ \E p \in DOMAIN all_plan_rows : is_dml(all_plan_rows[p].operation)

-----------------------------------------------------------------------------
(* The mode filter: C19 *)

\* Source row k of the batch is active: without early feedback, not eclipsed.
ActiveRow(k) == IsNone(matched[k].early_feedback) /\ ~matched[k].is_eclipsed

\* The plan rows with operation op that report source row k.
FeedbackRowsOf(k, op) ==
    {p \in DOMAIN all_plan_rows :
        /\ all_plan_rows[p].operation = op
        /\ all_plan_rows[p].row_ids = <<source_rows[k].row_id>>}

\* Source row k is in the row ids of a resolved segment, of a coalesced segment or of a
\* plan row that is not a feedback row.
InSegment(k) ==
    \/ \E g \in DOMAIN resolved : \E n \in DOMAIN resolved[g] :
          \E x \in DOMAIN resolved[g][n].row_ids :
              resolved[g][n].row_ids[x] = source_rows[k].row_id
    \/ \E g \in DOMAIN coalesced : \E n \in DOMAIN coalesced[g] :
          \E x \in DOMAIN coalesced[g][n].row_ids :
              coalesced[g][n].row_ids[x] = source_rows[k].row_id
    \/ \E p \in DOMAIN all_plan_rows :
          /\ all_plan_rows[p].operation \in {"INSERT", "UPDATE", "DELETE", "SKIP_IDENTICAL"}
          /\ \E x \in DOMAIN all_plan_rows[p].row_ids :
                all_plan_rows[p].row_ids[x] = source_rows[k].row_id

\* C19: in INSERT_NEW_ENTITIES mode every active source row of an existing entity has
\* exactly one SKIP_FILTERED row and is in no segment; in a *_FOR_PORTION_OF mode every
\* active source row of a new entity has exactly one SKIP_NO_TARGET row and is in no
\* segment; in MERGE_ENTITY_UPSERT, MERGE_ENTITY_PATCH and MERGE_ENTITY_REPLACE the plan
\* holds no SKIP_FILTERED and no SKIP_NO_TARGET row.
C19_ModeFilter ==
    (run = 1 /\ pc = "planned") =>
        /\ \A k \in DOMAIN source_rows :
              ActiveRow(k) =>
                  /\ (ctx.mode = "INSERT_NEW_ENTITIES" /\ ~matched[k].is_new_entity) =>
                        /\ Cardinality(FeedbackRowsOf(k, "SKIP_FILTERED")) = 1
                        /\ FeedbackRowsOf(k, "SKIP_NO_TARGET") = {}
                        /\ ~InSegment(k)
                  /\ (ctx.mode \in {"UPDATE_FOR_PORTION_OF", "PATCH_FOR_PORTION_OF",
                                     "REPLACE_FOR_PORTION_OF", "DELETE_FOR_PORTION_OF"}
                      /\ matched[k].is_new_entity) =>
                        /\ Cardinality(FeedbackRowsOf(k, "SKIP_NO_TARGET")) = 1
                        /\ FeedbackRowsOf(k, "SKIP_FILTERED") = {}
                        /\ ~InSegment(k)
        /\ ctx.mode \in {"MERGE_ENTITY_UPSERT", "MERGE_ENTITY_PATCH", "MERGE_ENTITY_REPLACE"} =>
              /\ RowsWithOperation("SKIP_FILTERED") = {}
              /\ RowsWithOperation("SKIP_NO_TARGET") = {}

\* A plan in INSERT_NEW_ENTITIES mode of a batch holding an active row of the existing
\* entity, filtered, and a row of a new entity, inserted.
C19_Witness ==
    /\ run = 1 /\ pc = "planned"
    /\ ctx.mode = "INSERT_NEW_ENTITIES"
    /\ \E k \in DOMAIN source_rows :
          /\ ActiveRow(k) /\ ~matched[k].is_new_entity
          /\ FeedbackRowsOf(k, "SKIP_FILTERED") /= {}
    /\ RowsWithOperation("INSERT") /= {}

-----------------------------------------------------------------------------
(* Eclipse detection: C20 *)

\* The lookup columns in which source row i holds a value.
NonNullLookups(i) ==
    {col \in {"ssn", "emp"} : source_rows[i].lookup_keys[col] /= NULL}

\* Rows i and j are of one partition: the same non-null lookup values, or, both without
\* any, the same causal id.
SamePartition(i, j) ==
    IF NonNullLookups(i) = {} \/ NonNullLookups(j) = {}
    THEN /\ NonNullLookups(i) = {} /\ NonNullLookups(j) = {}
         /\ source_rows[i].causal_id = source_rows[j].causal_id
    ELSE /\ NonNullLookups(i) = NonNullLookups(j)
         /\ \A col \in NonNullLookups(i) :
               source_rows[i].lookup_keys[col] = source_rows[j].lookup_keys[col]

\* Row j may eclipse row i: same partition, higher row id, no early feedback.
Eclipser(j, i) ==
    /\ j /= i
    /\ SamePartition(i, j)
    /\ source_rows[j].row_id > source_rows[i].row_id
    /\ IsNone(matched[j].early_feedback)

\* Every point of the interval of row i is in the interval of a row that may eclipse it.
CoveredByNewer(i) ==
    \A t \in source_rows[i].valid_from .. (source_rows[i].valid_until - 1) :
        \E j \in DOMAIN source_rows :
            /\ Eclipser(j, i)
            /\ source_rows[j].valid_from <= t
            /\ t < source_rows[j].valid_until

\* C20: after detect_eclipsed, a source row without early feedback is marked eclipsed if
\* and only if every point of its half-open interval lies in the union of the intervals of
\* the rows of its partition that have a higher row id and no early feedback.
C20_EclipsedIffCovered ==
    pc \in {"group", "groups", "planned"} =>
        \A i \in DOMAIN source_rows :
            IsNone(matched[i].early_feedback) =>
                (matched[i].is_eclipsed <=> CoveredByNewer(i))

\* A row is marked eclipsed that no single row covers: its coverage is joint only.
C20_Witness ==
    /\ pc = "group"
    /\ \E i \in DOMAIN source_rows :
          /\ IsNone(matched[i].early_feedback)
          /\ matched[i].is_eclipsed
          /\ \A j \in DOMAIN source_rows :
                Eclipser(j, i) =>
                    \/ source_rows[j].valid_from > source_rows[i].valid_from
                    \/ source_rows[j].valid_until < source_rows[i].valid_until

-----------------------------------------------------------------------------
(* Entity correlation: C21, C22 *)

\* The target rows source row i matches through some lookup key set.
MatchedTargets(i) ==
    {a \in DOMAIN target_rows :
        \E ks \in DOMAIN ctx.lookup_key_sets : MatchesThrough(i, a, ks)}

\* The key sets of source row i match more than one target entity.
SeveralEntities(i) ==
    \E a \in MatchedTargets(i), b \in MatchedTargets(i) : TwoEntities(a, b)

\* Source row i carries the ERROR "ambiguous".
FlaggedAmbiguous(i) ==
    /\ IsSome(matched[i].early_feedback)
    /\ Unwrap(matched[i].early_feedback).action = "ERROR"
    /\ Unwrap(matched[i].early_feedback).message.text = "ambiguous"

\* C21: after correlate_entities, a source row whose identity values match a target row
\* is an existing entity with that identity, whatever its lookup keys; any other row is
\* new iff no lookup key set matches a target row, is an existing entity with the matched
\* entity's identity iff its key sets together match exactly one target entity, and is
\* flagged ERROR, grouped with a matched entity, iff they match more than one.
C21_Correlation ==
    pc = "canonicalize" =>
        \A i \in DOMAIN source_rows :
            IF IdentityMatch(i)
            THEN /\ ~matched[i].is_new_entity
                 /\ matched[i].discovered_identity = Some(source_rows[i].identity_keys)
                 /\ ~FlaggedAmbiguous(i)
            ELSE /\ matched[i].is_new_entity <=> MatchedTargets(i) = {}
                 /\ (MatchedTargets(i) /= {} /\ ~SeveralEntities(i)) =>
                       /\ ~matched[i].is_new_entity
                       /\ ~FlaggedAmbiguous(i)
                       /\ \A a \in MatchedTargets(i) :
                             matched[i].discovered_identity = Some(target_rows[a].identity_keys)
                 /\ FlaggedAmbiguous(i) <=> SeveralEntities(i)
                 /\ SeveralEntities(i) =>
                       /\ ~matched[i].is_new_entity
                       /\ \E a \in MatchedTargets(i) :
                             matched[i].discovered_identity = Some(target_rows[a].identity_keys)

\* The same with identity columns (strategy Hybrid).
C21_CorrelationHybrid ==
    ctx.strategy = "Hybrid" => C21_Correlation


\* Source row i is a row of a new entity without any non-null identity or lookup value.
NoKeyValue(i) ==
    /\ matched[i].is_new_entity
    /\ \A k \in DOMAIN source_rows[i].identity_keys : source_rows[i].identity_keys[k] = NULL
    /\ \A k \in DOMAIN source_rows[i].lookup_keys : source_rows[i].lookup_keys[k] = NULL

\* The ERROR rows of the plan that report source row i as unidentifiable.
UnidentifiableRowsOf(i) ==
    {p \in ErrorRowsOf(i) :
        /\ IsSome(all_plan_rows[p].feedback)
        /\ "error" \in DOMAIN Unwrap(all_plan_rows[p].feedback)
        /\ Unwrap(all_plan_rows[p].feedback).error.text = "unidentifiable"}

\* C22: a source row of a new entity with no non-null identity value and no non-null
\* lookup value has an ERROR "unidentifiable" plan row in every configuration but
\* founding-id mode and strategy IdentityKeyOnly, where it has none.
C22_Unidentifiable ==
    pc = "planned" =>
        \A i \in DOMAIN source_rows :
            NoKeyValue(i) =>
                IF ctx.founding_mode \/ ctx.strategy = "IdentityKeyOnly"
                THEN UnidentifiableRowsOf(i) = {}
                ELSE Cardinality(UnidentifiableRowsOf(i)) = 1

\* The same with identity columns (strategy Hybrid).
C22_UnidentifiableHybrid ==
    ctx.strategy = "Hybrid" => C22_Unidentifiable


-----------------------------------------------------------------------------
(* The grouping key of the rows of a new entity: C23 *)

\* New-entity rows i and j share a non-null value for one lookup key set.
ShareKey(i, j) ==
    /\ NewEntityRow(i) /\ NewEntityRow(j)
    /\ \E ks \in DOMAIN ctx.lookup_key_sets :
          /\ \A n \in DOMAIN ctx.lookup_key_sets[ks] :
                /\ source_rows[i].lookup_keys[ctx.lookup_key_sets[ks][n]] /= NULL
                /\ source_rows[i].lookup_keys[ctx.lookup_key_sets[ks][n]]
                     = source_rows[j].lookup_keys[ctx.lookup_key_sets[ks][n]]

\* The rows a chain of rows pairwise sharing a key connects to the rows S.
RECURSIVE ChainClosure(_)
ChainClosure(S) ==
    LET T == S \cup {j \in DOMAIN source_rows : \E k \in S : ShareKey(k, j)}
    IN  IF T = S THEN S ELSE ChainClosure(T)

\* The non-null values the rows S hold for lookup column col.
ComponentValues(S, col) ==
    {source_rows[k].lookup_keys[col] : k \in S} \ {NULL}

\* C23: outside founding mode, after canonicalize_new_entity_nks, two new-entity rows
\* without early feedback that a chain of rows pairwise sharing a non-null value of a key
\* set connects have the same grouping key, and it holds for each lookup column the
\* non-null value the rows of their component hold for it, if any.
C23_ComponentKey ==
    (pc \in {"eclipse", "group", "groups", "planned"} /\ ~ctx.founding_mode) =>
        \A i \in DOMAIN source_rows :
            NewEntityRow(i) =>
                LET comp == ChainClosure({i})
                    key == matched[i].grouping_key
                IN  /\ \A j \in comp : matched[j].grouping_key = key
                    /\ Len(key) = 1 + Len(ctx.all_lookup_cols)
                    /\ key[1] = K_NEW
                    /\ \A n \in DOMAIN ctx.all_lookup_cols :
                          IF ComponentValues(comp, ctx.all_lookup_cols[n]) = {}
                          THEN key[n + 1] = NULL
                          ELSE key[n + 1] \in ComponentValues(comp, ctx.all_lookup_cols[n])

\* Two new-entity rows that share no key are connected through a third row.
C23_Witness ==
    /\ pc = "eclipse"
    /\ \E i \in DOMAIN source_rows, j \in DOMAIN source_rows :
          /\ NewEntityRow(i) /\ NewEntityRow(j)
          /\ ~ShareKey(i, j)
          /\ j \in ChainClosure({i})
          /\ matched[i].grouping_key = matched[j].grouping_key


-----------------------------------------------------------------------------
(* The UPDATE of a target row: C24 *)

\* The coalesced segments <<g, n>> that derive from target row a: segments of its entity
\* whose ancestor is the row.
DerivedSegments(a) ==
    {gn \in UNION {{<<g, n>> : n \in DOMAIN coalesced[g]} : g \in DOMAIN coalesced} :
        /\ ~coalesced[gn[1]][gn[2]].is_new_entity
        /\ coalesced[gn[1]][gn[2]].identity_keys = target_rows[a].identity_keys
        /\ coalesced[gn[1]][gn[2]].ancestor_valid_from = Some(target_rows[a].valid_from)}

\* The order of the tie: a segment that starts at the target row's from first, then a
\* segment whose payload is the target row's, then ascending from, then ascending until.
TieKey(a, gn) ==
    LET cs == coalesced[gn[1]][gn[2]]
    IN  <<IF cs.valid_from = target_rows[a].valid_from THEN 0 ELSE 1,
          IF OptionMapsEqual(cs.data_payload, Some(target_rows[a].data_payload)) THEN 0 ELSE 1,
          cs.valid_from, cs.valid_until>>

TieBefore(x, y) ==
    \E n \in 1..4 : x[n] < y[n] /\ \A k \in 1..(n - 1) : x[k] = y[k]

\* The plan rows with operation op of the entity of target row a whose new bounds are
\* those of coalesced segment gn.
PlanRowsOfSegment(a, gn, op) ==
    {p \in RowsWithOperation(op) :
        /\ all_plan_rows[p].identity_keys = Some(target_rows[a].identity_keys)
        /\ all_plan_rows[p].new_valid_from = Some(coalesced[gn[1]][gn[2]].valid_from)
        /\ all_plan_rows[p].new_valid_until = Some(coalesced[gn[1]][gn[2]].valid_until)}

\* The plan rows with operation op whose old bounds are those of target row a.
PlanRowsOfTarget(a, op) ==
    {p \in RowsWithOperation(op) :
        /\ all_plan_rows[p].identity_keys = Some(target_rows[a].identity_keys)
        /\ all_plan_rows[p].old_valid_from = Some(target_rows[a].valid_from)
        /\ all_plan_rows[p].old_valid_until = Some(target_rows[a].valid_until)}

\* C24: several coalesced segments deriving from one target row, the first of them in
\* the order of the tie is the UPDATE of that row and each other one is an INSERT; no
\* target row is the old side of two UPDATE rows, or of an UPDATE row and a DELETE row.
C24_UpdateTie ==
    (run = 1 /\ pc = "planned") =>
        \A a \in DOMAIN target_rows :
            /\ Cardinality(PlanRowsOfTarget(a, "UPDATE")) <= 1
            /\ PlanRowsOfTarget(a, "UPDATE") = {} \/ PlanRowsOfTarget(a, "DELETE") = {}
            /\ Cardinality(DerivedSegments(a)) >= 2 =>
                  \A gn \in DerivedSegments(a) :
                      IF \A other \in DerivedSegments(a) \ {gn} :
                             TieBefore(TieKey(a, gn), TieKey(a, other))
                      THEN /\ PlanRowsOfSegment(a, gn, "UPDATE") = PlanRowsOfTarget(a, "UPDATE")
                           /\ Cardinality(PlanRowsOfSegment(a, gn, "UPDATE")) = 1
                           /\ PlanRowsOfSegment(a, gn, "INSERT") = {}
                      ELSE /\ Cardinality(PlanRowsOfSegment(a, gn, "INSERT")) = 1
                           /\ PlanRowsOfSegment(a, gn, "UPDATE") = {}

\* Two segments derive from a target row, neither starts where the row starts, and the
\* later one, whose payload is the row's, is its UPDATE.
C24_Witness ==
    /\ run = 1 /\ pc = "planned"
    /\ \E a \in DOMAIN target_rows :
          \E gn \in DerivedSegments(a), other \in DerivedSegments(a) :
              /\ coalesced[other[1]][other[2]].valid_from < coalesced[gn[1]][gn[2]].valid_from
              /\ coalesced[other[1]][other[2]].valid_from /= target_rows[a].valid_from
              /\ PlanRowsOfSegment(a, gn, "UPDATE") /= {}
              /\ PlanRowsOfSegment(a, other, "INSERT") /= {}


-----------------------------------------------------------------------------
(* Payload resolution: C25 *)

\* The source rows that cover resolved segment n of group g: active rows of the group,
\* kept by the mode filter, whose interval contains the segment.
CoveringSources(g, n) ==
    {k \in DOMAIN source_rows :
        /\ matched[k].grouping_key = groups[g].grouping_key
        /\ ActiveRow(k)
        /\ ~(matched[k].is_new_entity /\ ctx.mode \in {"UPDATE_FOR_PORTION_OF",
                                                       "PATCH_FOR_PORTION_OF",
                                                       "REPLACE_FOR_PORTION_OF"})
        /\ source_rows[k].valid_from <= resolved[g][n].valid_from
        /\ resolved[g][n].valid_until <= source_rows[k].valid_until}

\* The target rows of group g that cover resolved segment n.
CoveringTargets(g, n) ==
    {a \in DOMAIN groups[g].target_rows :
        /\ groups[g].target_rows[a].valid_from <= resolved[g][n].valid_from
        /\ resolved[g][n].valid_until <= groups[g].target_rows[a].valid_until}

\* The covering sources of segment n of group g whose value for column col counts: in a
\* PATCH mode the non-null values, in the other modes every value but a null of a column
\* of the null-strip set.
CountingSources(g, n, col) ==
    {k \in CoveringSources(g, n) :
        /\ col \in DOMAIN source_rows[k].data_payload
        /\ IF ctx.mode \in {"MERGE_ENTITY_PATCH", "PATCH_FOR_PORTION_OF"}
           THEN source_rows[k].data_payload[col] /= NULL
           ELSE ~(source_rows[k].data_payload[col] = NULL /\ col \in ctx.exclude_if_null_columns)}

\* The value of column col in resolved segment n of group g, null when it is absent.
ResolvedValue(g, n, col) ==
    IF IsSome(resolved[g][n].data_payload)
    THEN MapGet(Unwrap(resolved[g][n].data_payload), col)
    ELSE NULL

\* C25: in a resolved segment some source row covers, the value of a data column is that
\* of the covering source row of highest row id whose value counts (in a PATCH mode a
\* non-null value; in the UPSERT and REPLACE modes any value but a null of a column of
\* the null-strip set), and, no covering source counting, the covering target row's
\* value.
C25_Resolution ==
    pc = "planned" =>
        \A g \in DOMAIN resolved : \A n \in DOMAIN resolved[g] : \A col \in DataColumns :
            CoveringSources(g, n) /= {} =>
                IF CountingSources(g, n, col) /= {}
                THEN \E k \in CountingSources(g, n, col) :
                        /\ \A other \in CountingSources(g, n, col) :
                              source_rows[other].row_id <= source_rows[k].row_id
                        /\ ResolvedValue(g, n, col) = source_rows[k].data_payload[col]
                ELSE \A a \in CoveringTargets(g, n) :
                        ResolvedValue(g, n, col) = groups[g].target_rows[a].data_payload[col]

\* A segment of the target row covered by two source rows, the later one null in the
\* data column: in a PATCH mode the earlier row's value is kept.
C25_Witness ==
    /\ pc = "planned"
    /\ ctx.mode = "MERGE_ENTITY_PATCH"
    /\ \E g \in DOMAIN resolved : \E n \in DOMAIN resolved[g] :
          /\ CoveringTargets(g, n) /= {}
          /\ \E k \in CoveringSources(g, n), later \in CoveringSources(g, n) :
                /\ source_rows[k].row_id < source_rows[later].row_id
                /\ source_rows[later].data_payload["v"] = NULL
                /\ source_rows[k].data_payload["v"] /= NULL
                /\ ResolvedValue(g, n, "v") = source_rows[k].data_payload["v"]
                /\ ResolvedValue(g, n, "v") /= target_rows[1].data_payload["v"]


-----------------------------------------------------------------------------
(* The target timeline kept: C26, C27, C30 *)

\* Time point t is in a target row of the entity of plan row p.
InTargetTimeline(p, t) ==
    \E a \in DOMAIN target_rows :
        /\ all_plan_rows[p].identity_keys = Some(target_rows[a].identity_keys)
        /\ target_rows[a].valid_from <= t
        /\ t < target_rows[a].valid_until

\* C26: in a *_FOR_PORTION_OF mode the new validity interval of every INSERT and UPDATE
\* plan row lies within the union of the intervals of the target rows of its entity.
C26_NoExtension ==
    (pc = "planned"
     /\ ctx.mode \in {"UPDATE_FOR_PORTION_OF", "PATCH_FOR_PORTION_OF",
                      "REPLACE_FOR_PORTION_OF", "DELETE_FOR_PORTION_OF"}) =>
        \A p \in RowsWithOperation("INSERT") \cup RowsWithOperation("UPDATE") :
            \A t \in Unwrap(all_plan_rows[p].new_valid_from)
                       .. (Unwrap(all_plan_rows[p].new_valid_until) - 1) :
                InTargetTimeline(p, t)

\* A source row reaches over a gap of the target timeline and beyond its end, and the
\* plan holds an UPDATE or INSERT row.
C26_Witness ==
    /\ pc = "planned"
    /\ ctx.mode = "UPDATE_FOR_PORTION_OF"
    /\ Len(target_rows) = 2
    /\ target_rows[1].valid_until < target_rows[2].valid_from
    /\ \E k \in DOMAIN source_rows :
          /\ ~matched[k].is_new_entity
          /\ source_rows[k].valid_from <= target_rows[1].valid_from
          /\ target_rows[2].valid_until <= source_rows[k].valid_until
    /\ RowsWithOperation("UPDATE") /= {}

\* No source row of the batch is a row of the entity of target row a.
MissingEntity(a) ==
    \A k \in DOMAIN source_rows :
        \/ matched[k].is_new_entity
        \/ matched[k].discovered_identity /= Some(target_rows[a].identity_keys)

\* The plan rows of the entity of target row a.
PlanRowsOfEntity(a) ==
    {p \in DOMAIN all_plan_rows :
        all_plan_rows[p].identity_keys = Some(target_rows[a].identity_keys)}

\* C27: every target row of an entity without source row in the batch has, with delete
\* mode DELETE_MISSING_ENTITIES or DELETE_MISSING_TIMELINE_AND_ENTITIES, exactly one
\* DELETE plan row, its entity having no other DML row; with delete mode NONE or
\* DELETE_MISSING_TIMELINE its entity has no plan row.
C27_MissingEntities ==
    pc = "planned" =>
        \A a \in DOMAIN target_rows :
            MissingEntity(a) =>
                IF ctx.delete_mode \in {"DELETE_MISSING_ENTITIES",
                                        "DELETE_MISSING_TIMELINE_AND_ENTITIES"}
                THEN /\ Cardinality(PlanRowsOfTarget(a, "DELETE")) = 1
                     /\ \A p \in PlanRowsOfEntity(a) :
                           all_plan_rows[p].operation \notin {"INSERT", "UPDATE"}
                ELSE PlanRowsOfEntity(a) = {}

\* C30: in INSERT_NEW_ENTITIES mode with delete mode NONE every DML plan row is an INSERT
\* of a new entity.
C30_InsertOnly ==
    (pc = "planned" /\ ctx.mode = "INSERT_NEW_ENTITIES" /\ ctx.delete_mode = "NONE") =>
        \A p \in DmlRows :
            /\ all_plan_rows[p].operation = "INSERT"
            /\ all_plan_rows[p].is_new_entity


-----------------------------------------------------------------------------
(* A call that shifts the three rows of one timeline *)

\* The timeline of the target entity: two adjacent rows and, after a gap, a third one,
\* each of its own value.
ShiftTargets == << <<<<1, 3>>, 1>>, <<<<3, 5>>, 2>>, <<<<6, 8>>, 3>> >>

\* A value that no target row holds.
ShiftOtherValue == 4

\* What each source row of the call may cover, and the value it may carry.
ShiftSources ==
    << {<<0, 2>>, <<1, 2>>, <<1, 3>>} \X {1, ShiftOtherValue},
       {<<2, 3>>, <<2, 4>>, <<3, 4>>} \X {2, ShiftOtherValue},
       {<<5, 7>>, <<6, 7>>, <<6, 8>>} \X {3, ShiftOtherValue},
       {<<7, 8>>, <<7, 9>>} \X {3, ShiftOtherValue} >>

\* One call in mode MERGE_ENTITY_UPSERT with delete mode NONE on an entity identified
\* by "id", with one source row of each set of ShiftSources.
InitShift ==
    \E ch \in ShiftSources[1] \X ShiftSources[2] \X ShiftSources[3] \X ShiftSources[4] :
        LET c == MakeCtx("MERGE_ENTITY_UPSERT", "NONE", FALSE, {})
        IN  /\ ctx = c
            /\ target_rows = [i \in DOMAIN ShiftTargets |->
                                 MakeTarget(1, NULL, ShiftTargets[i][1], ShiftTargets[i][2], c)]
            /\ source_rows = [i \in DOMAIN ShiftSources |->
                                 MakeSource(i, 1, NULL, ch[i][1], ch[i][2], c)]
            /\ CallStart

NextShift ==
    \/ SweepLinePlan

SpecShift == InitShift /\ [][NextShift]_vars

-----------------------------------------------------------------------------
(* C28: the comparison of the sequencer *)

\* a sorts before b in sequence_statements.
Before(a, b) == PlanRowCmp(a, b) = -1

\* The plan holds two MOVE updates and a non-MOVE update of one entity.
MixedMoves ==
    \E i, j, k \in DOMAIN all_plan_rows :
        /\ i /= j
        /\ \A n \in {i, j, k} : all_plan_rows[n].operation = "UPDATE"
        /\ all_plan_rows[i].update_effect = Some("MOVE")
        /\ all_plan_rows[j].update_effect = Some("MOVE")
        /\ all_plan_rows[k].update_effect /= Some("MOVE")
        /\ all_plan_rows[i].entity_keys = all_plan_rows[k].entity_keys
        /\ all_plan_rows[j].entity_keys = all_plan_rows[k].entity_keys

\* C28: the comparison that sequence_statements sorts the plan rows by is transitive:
\* whenever a sorts before b and b sorts before c, a sorts before c, also among the
\* MOVE and non-MOVE updates of one entity.
C28_Transitive ==
    \A i, j, k \in DOMAIN all_plan_rows :
        (Before(all_plan_rows[i], all_plan_rows[j])
            /\ Before(all_plan_rows[j], all_plan_rows[k]))
        => Before(all_plan_rows[i], all_plan_rows[k])

\* C28, its consequence: in the returned plan every row sorts before the rows after it,
\* so that plan_op_seq follows the ordering key.
C28_SortedByKey ==
    pc = "planned" =>
        \A i, j \in DOMAIN all_plan_rows :
            i < j => ~Before(all_plan_rows[j], all_plan_rows[i])


-----------------------------------------------------------------------------
(* A call under each identity strategy, with source rows of several new entities *)

MaxGroupSources == 2   \* source rows of a call of SpecGroups

\* <<id, ssn>> of a source row: rows of the target entities 1 and 2, and rows of new
\* entities with an id alone, an ssn alone or both.
GroupsSourceKeys == {<<1, 1>>, <<2, 2>>, <<3, NULL>>, <<4, NULL>>, <<3, 3>>, <<NULL, 3>>, <<NULL, 4>>}

\* One call in mode MERGE_ENTITY_UPSERT on the target table of SpecKeys, with identity
\* column "id", lookup key set [ssn] or both.
InitGroups ==
    \E identity_columns \in {None, Some(<<"id">>)}, lookup_keys \in {None, Some(<< <<"ssn">> >>)} :
      \E delete_mode \in {"NONE", "DELETE_MISSING_ENTITIES"}, n \in 0..MaxGroupSources :
        \E ch \in [1..n -> GroupsSourceKeys \X ModesIntervals] :
          LET parsed == parse_lookup_keys(lookup_keys)
              c == build_planner_context("MERGE_ENTITY_UPSERT", delete_mode, identity_columns,
                                         parsed.all_lookup_cols, parsed.lookup_key_sets, {})
          IN  /\ c.strategy /= "Undefined"
              /\ ctx = c
              /\ target_rows = [i \in DOMAIN KeysTargetTable |->
                                   read_target_ordinals(KeysTargetTable[i], c)]
              /\ source_rows = [i \in 1..n |->
                                   read_source_ordinals(
                                       TableRow(i, ch[i][1][1], ch[i][1][2], 1, ch[i][2], 1), c)]
              /\ CallStart

NextGroups ==
    \/ SweepLinePlan

SpecGroups == InitGroups /\ [][NextGroups]_vars

-----------------------------------------------------------------------------
(* C29: one logical entity per entity group *)

\* Two target rows of a group are rows of one target entity.
SameTargetEntity(a, b) ==
    /\ a.identity_keys = b.identity_keys
    /\ a.lookup_keys = b.lookup_keys

\* Rows i and j of the batch are new-entity rows with different non-null values in an
\* identity column.
DifferentNewIdentities(i, j) ==
    /\ NewEntityRow(i) /\ NewEntityRow(j)
    /\ \E k \in DOMAIN source_rows[i].identity_keys :
          /\ source_rows[i].identity_keys[k] /= NULL
          /\ source_rows[j].identity_keys[k] /= NULL
          /\ source_rows[i].identity_keys[k] /= source_rows[j].identity_keys[k]

\* The target rows of every group are rows of one target entity.
OneTargetEntityPerGroup ==
    \A g \in DOMAIN groups :
        \A a, b \in DOMAIN groups[g].target_rows :
            SameTargetEntity(groups[g].target_rows[a], groups[g].target_rows[b])

\* New-entity rows with different identities have different grouping keys.
NewIdentitiesApart ==
    \A i, j \in DOMAIN source_rows :
        DifferentNewIdentities(i, j) => matched[i].grouping_key /= matched[j].grouping_key

\* C29: once the rows are grouped, no entity group holds target rows of two target
\* entities, and no two new-entity source rows with different non-null identity values
\* have the same grouping key, under strategy Hybrid, IdentityKeyOnly and LookupKeyOnly.
C29_OneEntityPerGroup ==
    pc \in {"groups", "planned"} => (OneTargetEntityPerGroup /\ NewIdentitiesApart)

\* C29 under strategy IdentityKeyOnly, where it holds.
C29_IdentityKeyOnly ==
    (pc \in {"groups", "planned"} /\ ctx.strategy = "IdentityKeyOnly")
        => (OneTargetEntityPerGroup /\ NewIdentitiesApart)

\* The two halves of C29 under strategy Hybrid.
C29_HybridTargets ==
    (pc \in {"groups", "planned"} /\ ctx.strategy = "Hybrid") => OneTargetEntityPerGroup

C29_HybridNew ==
    (pc \in {"groups", "planned"} /\ ctx.strategy = "Hybrid") => NewIdentitiesApart

C29_LookupOnlyTargets ==
    (pc \in {"groups", "planned"} /\ ctx.strategy = "LookupKeyOnly") => OneTargetEntityPerGroup

=============================================================================
